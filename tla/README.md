# wv_shm: a verification model of the shared-memory queues

`src/wv_shm_mngt.c` lets processes of one machine exchange messages through a
System V shared memory segment. The segment holds meta data and up to 100
*junks*; a junk is a named ring queue of linked elements of any size. A System
V semaphore set, one semaphore per junk, is there for the callers to exclude
each other. The library itself takes no lock.

## 1. Inventory

| component | state | operations | talks to |
|---|---|---|---|
| segment and meta data (`wv_shm_init_shm`, `_load_meta`, `_init_meta`, `_sync_meta`, `_junk_init`, `wv_shm_wr`, `wv_shm_rd`) | the IPC object of key 4000, the `wv_shm_meta_t` at its start, per process `_shmmeta` and `_shm_startaddr` | create, remove, attach, write and read the meta data | everything reads `_shmmeta->arr_junkhdr_offsets` |
| junk semaphores (`wv_shm_init_smphr`, `_lock_quu`, `_unlock_quu`) | the IPC set of key 3000 (value and undo adjustment per process), per process `_semid` | create and set to 1, attach, `semop` -1 and +1 with `SEM_UNDO` | called by the programs around queue operations |
| junk registry (`wv_shm_find_junk`, `_assign_junk`, `_unassign_junk`, `_get_junk_index`, `_get_junk_list`, `_free_junk_list`) | `is_assigned` and `shm_name` of each junk header | look up by name, take a free junk, give it back, copy all headers | assign and unassign end with `wv_shm_clear_junk` |
| junk queue (`wv_shm_push_elem`, `_link_elems`, `_peek_elem_hdr`, `_peek_elem_data`, `_pop_elem_data`, `_clear_junk`) | `writeoffs`, `prev_writeoffs`, `readoffs`, `remainsz`, `count` of the junk header and the bytes of the area | push, peek, pop, clear | the pointer a peek returns points into the area |
| dump and load (`wv_shm_dump_junk`, `wv_shm_load_junk`) | files `<name>.sdmp`, `<name>_<n>.sdmp` | write a whole junk to a file, read one back into a junk | find, get index, the registry fields |
| helpers (`common/wv_mem`, `wv_log`, `wv_file`) | a heap block, a log file, a file | | not used by the queue, except the log |
| programs (`tests/*.c`, `test_main.c`) | | producer, consumer, integrity tests | show how the library is called |

What is hard, and what makes each component correct:

* **Junk queue.** One ring, read and write position and element links that must
  agree over long runs; the end of the area is wasted when an element does not
  fit; a peeked pointer stays with the caller. Correct: every element queued is
  intact and popped once, in order, and a push is refused only without room.
* **Semaphores.** Processes that die inside or while they initialise, calls that
  fail and are ignored, a set that is initialised twice. Correct: mutual
  exclusion, a dead holder gives the semaphore back once, no one waits for ever.
* **Registry.** Test and set without a lock, names compared by prefix, processes
  that end between two writes, names written byte by byte over old ones. Correct: a
  name has one junk, what is found had such a name (or was just being given one),
  what had one all the time is found.
* **Segment.** Created by one system call and looked up by the next, removed while
  others use it, meta data read before it is written, a creator that dies. Correct:
  one process initialises a segment, the junks whose offsets the meta data have exist.
* **Dump and load.** No lock, files chosen by prefix, offsets in the file that
  belong to another junk. Correct: a load restores what the dump wrote, an
  unlocked dump has what was queued when it began, though others push.

## 2. Modules and their correspondence to the code

| module | models |
|---|---|
| `JunkFifo` | abstract: the FIFO a junk promises |
| `JunkQueue` | the queue calls on one assigned junk, bytes and offsets included |
| `UniformQueue` | `JunkQueue` with elements of one size: slots, inductive invariant, refinement of `JunkFifo` |
| `UniformQueueProofs` | theorems about `UniformQueue` |
| `QuuLock` | one semaphore, the processes around it, faults |
| `QuuLockProofs` | theorems about `QuuLock` |
| `FoldSums` | lemmas about sums over a finite set, for `QuuLockProofs` |
| `SharedJunk` | composes `JunkQueue` and `QuuLock`: push and pop as their single writes, under the semaphore, with deaths in between |
| `SharedJunkProofs` | theorems about `SharedJunk` with deaths anywhere: exclusion, where pushes write |
| `SharedFifoProofs` | theorems about `SharedJunk` up to the first harmful death: elements, refinement of `JunkFifo` |
| `Registry` | find, assign and unassign of several processes, each access to the flag and to a byte of the name a step, with ends in between |
| `RegistryProofs` | theorems about `Registry` |
| `Segment` | `wv_shm_init_shm` of several processes, each system call, junk header and field of the meta data a step, with removals and ends |
| `SegmentProofs` | theorems about `Segment` |
| `DumpLoad` | dump and load, cell by cell, against assignments, clears, pushes and pops of others |
| `DumpLoadProofs` | theorems about `DumpLoad` |
| `MC*` | constants for TLC |

**JunkQueue.** The variables are the fields of `wv_shm_junk_hdr_t` under their
own names, and the area. An area cell has two views: `hdrs[o]` is the
`wv_shm_junk_elem_hdr_t` that starts at `o`, `data[o]` the byte there; writing
an element overwrites both views of every cell it covers, so destruction by an
overlapping write is visible. Reading a header where none starts may yield any
header. Offsets count from the segment as in the code and 0 is NULL. `peeked`
is the pointer the last successful `wv_shm_peek_elem_hdr` returned; the model
caller may keep it over any other call. `ret` is what the last call returned,
`queued` a history of the elements pushed and not popped. Each action is a
whole call. `PushElem` follows the tests of `wv_shm_push_elem` (`Accepts`), the
wrap (`WritePos`, `ReadPosAfterPush`), the link (`LinkElems`) and the two
memcpys (`StoreHdr`, `StoreData`). `PopElemData` follows the header check
(`SameElem`), the copy (`DataAt`) and the choice of the next read position
(`HasSuccessor`, `NextReadPos`); every `NULL` result is `PopNull`.

**QuuLock.** `pc` follows a program of `tests/`: down, initialising, idle,
waiting in `wv_shm_lock_quu`, inside. `semval` and `semadj` are what the kernel
keeps. `InitSmphr` is the semget of `SEMA_INIT` (whose IPC_RMID is called with
-1 and so does nothing), `SetVal` the `SETVAL`, `GetSmphr` the other branch.
`LockNoSet` and `LockInterrupted` are a `wv_shm_lock_quu` that returns -1, which
producer and consumer ignore. `Exit` is any end of the process, with the
kernel's undo. `Faults` selects what may happen besides deaths; the history
`faulted` says which of it has, and each property says which of it it survives.

**SharedJunk.** `at[p]` names the next write of the call process p is in:
`move_read` and `move_write` are the two assignments of the wrap (`move_both`
the second one when the first was made), `link`, `prev`, `hdr`, `skip_hdr`,
`data`, `skip_data`, `remain`, `count` the rest of a push in the code's order,
`read`, `give_remain`, `count_down` those of a pop. Tests and places are the
operators of `JunkQueue` (`Junk!Accepts`, `Junk!NextReadPos`, ...), locking and
dying are the actions of `QuuLock`. An element is in `queued` from the last
write of its push to the last write of its pop. `DeathPoints` are the writes in
front of which a process may die; those in `HarmlessPoints` leave the junk as if
the call had not been made.

**Registry.** A name is a row of `NameSz` bytes with terminators behind its letters;
`shm_name[j]` is the buffer of junk j, byte by byte. The loop all three calls begin
with reads the flag (`ReadFlag`) and, if it is set, what `strncmp` compares: a byte
that agrees (`SameByte`), one that differs (`OtherByte`), none left (`Hit`), in any
order. `TestFree`, `SetFlag`, `SetName` and `ResetFlag`, `ResetName` are the accesses
of assign and unassign in the code's order: `SetName` is one byte of the `snprintf`
(letters in any order, the terminator last) over whatever the buffer held,
`ResetName` the one byte `strcpy` of the empty string writes, so the tail of an old
name stays. `Die` ends a process in its call, in front of any of these. `owner` is a
history: the name a junk was given, from the last byte written until its flag is
reset. `seen`, `kept` and `shaken` say of each call which junks had a name beginning
with the one asked for at some time of it, which had one all through, and which had
their flag set without a complete name at some time: being assigned, or left so by
a process that ended. `raced` records that two calls that write (`Writing`)
overlapped, against which the code has no means.

**Segment.** `key` is what `shmget` finds by SHM_KEY, `numIds` counts the ids the
kernel has given, `removed` are the segments removed and perhaps still attached;
`inited` and `copied` are what the segments hold: junk headers, and fields of the
meta data (`Head` stands for `count` and what is beside it, `j` for the offset of
junk j), and `endaddr` is whose address is in `shm_endaddr`. `pc` follows
`wv_shm_init_shm`: `Probe` and `Rmid` (the removal when flags are given; the code
tests the id for 0 and not for -1, so segment 0 makes it exit), `Create`
(`IPC_EXCL`), `CreateAgain` and `Lookup` (the second `shmget` of either branch),
`Attach`, then `LoadMeta`, which writes `shm_endaddr`, or `JunkInit` per junk,
`InitMetaDone` and a `SyncMeta` per field: the `memcpy` goes to the memory that
processes which loaded early read in place, in an order of its own. Every exit of
the code and every death is `Exit`, also in the middle of the copy. `meta` tells
whether `_shmmeta` is still the process's own or the start of the segment, so
`Count` is what the process reads of `_shmmeta->count` and `Listed` are the junks
whose offset it reads. The header of a junk is one step, as nobody looks at it
before its offset is copied. A process that removes is privileged enough to do so.
`torn` is a history: the segments whose initialiser ended before it was through.

**DumpLoad.** A junk is a row of cells, its header (`Label`, `ReadPos`, `CountPos`)
and its slots, as `startoffs` to `quu_endoffs` are a row of bytes. The offsets in a
header are offsets of the segment; of them `home`, the junk they lie in, is kept:
`Queue(j)` is the queue header `j` speaks of, wherever it lies. `NextPath` and
`PathFound` are the loop over the file names, `OpenDump`, `DumpCell`, `CloseDump` and
`LoadCell`, `EndLoad` copy cell by cell, between the steps of others. `LoadJunk` picks
any file whose name begins with the one asked for (directory order); `TakeHolding`,
`TakeFree`, `NameTaken` and `TakeNone` are the two searches for a junk. Flag and name
of a junk are two writes: `AssignJunk` or `UnassignJunk` and then `NameJunk`,
`TakeFree` and then `NameTaken`; a process may end between them, so a junk without
flag may have a name, which `TakeHolding` takes as the code does. Assigning and
unassigning clear in a later step (`ClearAndReturn`); `ClearJunk`, `PushElem`,
`PopElemData` are calls with a pointer at hand (`Held`), whatever the junk is called
by now. `job` holds the local variables of a call. Histories: `tape`, what a file was
to be a dump of; `disturbed`, whether others wrote the junk a copy is made from or
to; `spoiled`, whether they did so by anything but pushes. One process dumps and
loads (`DumpLoadAssumption`): with two, one file may be written by both, and nothing
would be left to claim.

## 3. Runs

| run | question | result |
|---|---|---|
| `uniform` | is the junk a FIFO, are queued elements intact, with elements of one size, with stale headers, refused pushes and clears | holds |
| `mixed` | does a pop return the oldest element with elements of different sizes | violated: see finding 1 |
| `stale_header` | does a pop refuse a header that is not the current one | violated: finding 2 |
| `lock` | deaths, a missing set, interrupted semops, repeated `SEMA_INIT`, torn initialisations: mutual exclusion, is a free semaphore 1, is it never lost, does every lock call return, the inductive invariant | holds, each up to the faults it names |
| `shared` | deaths in front of harmless writes: is the junk still a FIFO, is every element whose push returned intact, does an empty junk accept | holds |
| `shared_deaths` | a death in front of any write: can a later push write outside its junk | it cannot |
| `shared_wedged` | does an empty junk accept a push after a death inside the rewind | violated: finding 3 |
| `registry` | is what is found right, is what is there found, is a name unique, with names read and written byte by byte and deaths anywhere, until writing calls overlap; the inductive invariant | holds |
| `registry_race` | overlapping assignments: one junk per name | violated: finding 4 |
| `segment` | does a junk whose offset can be read have its header, and one below the count its offset; without removals, does one process initialise, once; does who loads early catch up; the inductive invariant | holds |
| `dump` | is what is loaded what was dumped, does an unlocked dump have what was queued when it began, though others push | holds |
| `load_foreign` | do two junks never have one queue | violated: finding 5 |

Bounds. `uniform`: headers of two cells, data of two, 18 cells starting at
offset 3: four slots and two wasted cells, so the write position both stops
short of the end and wraps, the queue is full, drained in every slot and
wrapped several times; two payloads that differ in each byte, so any exchange
of elements or bytes shows. All state is finite without further bounds.
`mixed`: three sizes, ten cells. `lock`: three processes (a holder, a dead one,
one that waits) and at most `MaxDebt` = 2 unlocks of what was not locked per
process. `shared`: two processes (one in the section, one that
comes after it; the semaphore is what a third could add, and the lock run has
it), three slots and one wasted cell, two payloads; any number of harmless
deaths. `shared_deaths`: two slots and a wasted cell, one harmful death
(`MaxHarm`); the counters that then run away are cut by `MaxCount` (one above
what fits) and `MaxRemain` (two above the area), so a queue that believes in
more room than it has is reached. `registry`: two processes, two junks, buffers of
three bytes and two names, one of which begins the other and leaves its tail behind
it: the registry is empty, partly filled, with a hole, and full, and a name may be
hidden behind a longer one. The constraint `Calm` stops TLC at the first overlap of
writing calls: all properties but the types are conditional on its absence, and it
is never taken back. `segment`: three processes (a remover, a creator, one that comes
late), two junks (one to die after) and thus three fields to copy, `MaxIds` = 2: a
segment removed in use and its successor, or one of another program and ours.
`dump`: two junks, three names
(one more than junks, one with an old file), two slots, so the ring wraps; `MaxSeq`
= 1, so the sequence of names is used up; `MaxPushes` = 3 elements and `MaxCalls` =
3 calls of assign, unassign, dump and load, enough for dump, unassign, load. The other
process holds a pointer to one junk, and no name begins another (`Registry` has that).

Fairness. Lock: `WF` of `SetVal`, `UnlockQuu` and `LockNoSet`: a process inside an
initialisation, a critical section (a bounded batch in producer and consumer)
or a failing call goes on, or dies. `SF` of `LockQuu`: Linux hands a semaphore
that is raised to its sleepers in the order they came, so a sleeper cannot be
overtaken for ever. Nothing is assumed of processes that are idle or down.
After a death between semget and SETVAL the value stays 0 until somebody
initialises again, so `LockReturns` and `NeverLost` end there; mutual exclusion
does not. Segment: `WF` of `InitShm(p)`: the call has no lock and waits for
nobody, so a process in it is scheduled again, or ends.

## 4. Findings

1. Elements of different sizes (`mixed`): `remainsz` counts the cells wasted at
   the end as free, and a push that does not wrap never looks at the read
   position; it overwrites an unread element.
2. Stale headers (`stale_header`): with the last element current, `nextoffs` 0
   matches any header of the same size.
3. Death inside a rewind (`shared_wedged`): lines 1083 and 1086 are two
   assignments; a process that dies between them leaves an empty junk that
   refuses every push until it is cleared.
4. Overlapping assignments (`registry_race`): a name gets two junks.
5. Loads into another junk (`load_foreign`): the file brings the offsets of the
   junk it was taken from, so two headers speak of one queue.

Not findings, but visible in the models. `JunkFifo!RefusePush`: the comparison at
line 1079 is strict, so a slot that was just freed in front of the read position
is refused when only that one is missing, and a junk with a single slot refuses
for ever once its element was popped. `QuuLock!InitSmphr`: the `IPC_RMID` of
`SEMA_INIT` is called with -1 and removes nothing, the value is set to 1 under a
holder. `Segment`: when a segment is removed between the two `shmget` calls of a
creator, two processes may initialise one segment (`OneInitialiser` fails); `count`
is copied in front of the offsets, so a process that loaded early, or that comes
after a creator that died in the copy, may read 100 junks whose offsets are 0.
`Registry`: when "server10" is unassigned and "server" assigned in its place, the
buffer holds "server10" again from the first letter written until the terminator
is: a find of "server10" returns it. `FoundHadName` says exactly
this much and no more. `DumpLoad`: a pop between the copies of `readoffs` and of
`count` gives a file whose queue misses an element that was queued all the time, as
`count` is then one too low; this is why `PushesHarmNoDump` excludes pops.

## 5. Proofs

All theorems hold for every value of the constants under the named ASSUMEs of
the modules.

`UniformQueueProofs`: `Invariance`, `TypeCorrect`, `BacklogSafe`, `Refinement`.
The invariant `Inv` says in which slot `a` the read position is (`Layout`), that
element i of the queue is in slot a+i-1 (mod Capacity), that the write position
is one slot behind the newest element and may be the end of the last slot,
that `remainsz` is the area less `count` slots, that `prev_writeoffs` names a slot
and, if the queue is not empty, the newest element, and that the elements are
intact. `BacklogIntact` alone is not inductive: without the slots nothing says
that a push writes beside the queued elements, and without `prev_writeoffs`
nothing says that its link goes to the newest one. Lemmas about slots
(products with the slot size) carry the arithmetic; one lemma per action
preserves each conjunct. `Refinement` maps every call to a step of `JunkFifo`;
a refused push maps to the full queue or to the queue that misses one slot, and
`FreshPeek` shows that a pop right after its peek never returns NULL.

`QuuLockProofs`: `LockInvariance`, `MutualExclusion` (until a lock call fails or
somebody resets the semaphore; torn initialisations do no harm),
`DeadHoldersRelease` (until any fault). `Inv` relates the value, the adjustments
and the places of the processes: value 1 exactly excludes a holder, an adjustment
of 1 belongs exactly to a holder. `SemaphoreNotLost` (with `torn` initialisations
excepted, for a finite set of processes) goes beyond the first fault: the value and
the sum of the adjustments are together the supply of the semaphore; a semop moves it
between the two (`SemopKeepsSupply`), an end of a process lets the kernel round up but
never down (`ExitKeepsSupply`), `SETVAL` makes it 1. The sum is a fold over the
processes; `FoldSums` proves by induction that it changes by what one adjustment
changes. The induction is over sets: the least element of the set of
counterexamples (`SubsetInduction`), which needs no predicate as a parameter.

`SharedJunkProofs`: `PushesStayInside`, `CallsAreExclusive`, for any area, element
size and set of processes and with deaths in front of any write. The invariant
`Inside` says what survives a harmful death: the write position, `prev_writeoffs` and
the place a push has chosen lie in the area, with room for the element, and only a
process that holds the semaphore is in a call (`Holding`), while the counters, the
headers and the read position may be anything; exclusion is that of `QuuLock`, whose
theorems are used by INSTANCE.

`SharedFifoProofs`: `TypeCorrect`, `BacklogSafe`, `EmptyAccepted`, each up to the first
harmful death, and, where processes die only in front of harmless writes (or no
harmful death is allowed: `HarmlessDeaths`), `HarmlessDeathsLoseNothing` and
`Refinement`. The invariant `FifoInv` has two parts. `Shape(a, w)` is the queue as its
calls mean it: the read position in slot `a`, the newest element in front of slot
`w`, the elements between them linked and intact. `Progress(place, e, a, w)` is how
far the one call under way is: which of the offsets and counters it has written,
and what lies in the free slot it fills. If
nobody is in a call, `Progress` says that the header agrees with `Shape`, so a process
that dies in front of a harmless write must leave exactly that. Neither part alone
is inductive: between two writes the header contradicts the queue, and the
header alone does not say which writes are still to come. One lemma per write
preserves the two; `CopyHdrEffect` and `CopyDataEffect` say that a write into a free
slot touches no queued element. In the refinement a push takes effect with its
write of `count`, a pop with its own; every other write is a stutter.
`EmptyAccepted` asks for room for two elements (`Junk!Capacity >= 2`): `OneSlotRefuses`
proves that with one slot a drained junk refuses every push, so the hypothesis
cannot be dropped.

`RegistryProofs`: `RegistryInvariance`, `TypeCorrect`, `FindIsSound`,
`FindIsComplete`, `NamesAreUnique`, for any number of processes, any junks and any
names that fit the buffer. `Inv` adds to the properties where each call can be
(`CallShape`), that one call writes at a time until an overlap (`OneWriter`), what
the buffers show (`HeaderShape`): a junk that has a name shows it up to the
terminator, one that is being given a name the bytes written so far, and anything
behind; and what a call knows (`Progress`): a junk behind the read position has not
had such a name all through the call, and in the junk it looks at either such a
name was to be seen in the call (whole or in the making), or a byte that tells the
difference is still to be compared. The last is why a stale tail does no harm where
the name is complete: the terminator is one of the bytes to compare. One lemma per
action preserves each part. Processes may end in front of any write: a junk then
stays flagged without a name, and the invariant holds on.

`SegmentProofs`: `SegmentInvariance`, `CountIsSafe`, `InitialisedByOne`,
`NeverReinitialised`, `TypeCorrect`, for any number of processes, removers, junks
and segments. `Inv` says what each place of `wv_shm_init_shm` implies (`CallShape`),
that the junks a process counted have headers in its segment, that meta data are
written only when all have, and all of them are unless somebody is at it or was cut
short (`Filling`), and that without removals there is one creator, who is in the
copy or through it when there are meta data (`OneCreator`). `CountMeansJunks` alone
is not inductive: it says nothing of the initialiser's own count, which becomes
everybody's when the meta data are copied.

`DumpLoadProofs`: `TypeCorrect`, `LoadReturnsDump`, `DumpHasQueued`, for any number of
processes, junks, names, slots and file names, from the assumption that one process
dumps and loads. The properties speak of the end of calls, so the invariant `IInv`
follows the copies: in the middle of a dump the file has the cells of the junk, or,
if others pushed, what it needs of the queue of the beginning (`CopiedQueue`), as
far as it is written (`DumpTrue`); in the middle of a load the junk has those of the
file (`LoadTrue`); a file that was closed undisturbed is the row its tape entry says
(`FileTrue`). The argument has two halves: `WriterStep` (a step that writes junks
`js` leaves the others' copies alone, or they count as disturbed, and one that only
adds to the queue leaves its beginning alone: `BystanderKeeps`) and `QuietStep` (a
step of the dumping process, which is the only one with a file, `OneCopier`).

Only model-checked: liveness (`LockReturns`, `CatchesUp`; out of the prover's
reach). Every invariant and action property of the passing runs is also a theorem.
What is violated with elements of different sizes, harmful deaths, overlapping
assignments or foreign dumps is shown by TLC alone.

## 6. Not modelled

Abstracted: logging, wording, memcpy and malloc failures, element sizes of 2^31
and more, empty payloads, names longer than 255 bytes. `wv_shm_pop_elem_data` with
a NULL header next to NULL-guarded code (it reads the header's size at line 1437
regardless): callers pass what a peek returned. In `DumpLoad` pushes, pops and
clears are single steps (they are made under the semaphore, and `SharedJunk` has
their writes), elements take one slot, a name is looked up and written in one step
(`Registry` has the bytes), and a dump that fails to open its file is left out. Of
the positions and counters of a header `DumpLoad` has `readoffs` and `count`: in an
unlocked dump `writeoffs`, `prev_writeoffs`, `remainsz` and the links of the elements
may be of different times, and nothing is claimed of them.

Not modelled: `common/wv_mem` (no program calls it, it keeps no state of the
system), `common/wv_log` and `common/wv_file` (output and one file handle that no
other part reads), `wv_shm_get_junk_index`, `wv_shm_get_junk_list` and
`wv_shm_free_junk_list` (they change nothing; the copy of all headers may be of
different times, and says so nowhere), the generated test driver and the
stand-alone semaphore experiments in `smphr_test` and `sema_test`.

Open: a module in which a junk is found, pushed to and cleared by its assigner at
the same time (`Registry` joined with `SharedJunk`); two dumping processes; the
width of `elemsz`.

# FASTMEM: a TLA+ verification of the concurrency core

FASTMEM is an in-memory storage engine for MariaDB without table locks.  This
directory holds TLA+ models of its concurrent parts, TLC instances that check
them, and proofs for the TLA+ proof system.  Source lines are those of the
repository (`src/`); "README" and "DESIGN" with a line number are `src/README.md`
and `src/DESIGN.md`.

## 1. The system and its parts

| Part | Source | Here |
|---|---|---|
| Row slot: image under a seqlock, row lock (`wlock`), state, generation | `fm_core.h`, `fm_data.cc` | `FmSlot` (and `FmRow`, what it promises) |
| Table core: chunks of slots, freelist, hash chains with a lock per bucket, `struct_mutex`, row count | `fm_core.h` | `FmCore` |
| Auto-increment counter | `fm_core.h`, `fm_data.cc` | `FmAutoInc` |
| Share registry: create, open, close, drop, rename | `fm_create.cc`, `ha_fastmem.cc` | `FmRegistry` |
| Data layer (positions, reread, error codes) | `fm_data.cc` | in the actions of the three core modules |
| Handler (row lock of write statements, cursor) | `ha_fastmem.cc/.h` | in `FmSlot`, `FmCore`, `FmRegistry`; scans over several slots not yet |
| Hashing and comparison of keys | `fm_hash.cc` | not modelled: pure functions; the core takes them as a function of the key value |
| `fm_prepare_create_info`, `fm_def.h`, cost constants, plugin declaration, scripts, benchmarks | | not modelled: no shared state |

A statement runs like this.  A SELECT looks a row up under a bucket lock, or
scans slots without any lock, and copies the image under the seqlock.  UPDATE
and DELETE do the same, then take the slot's row lock, reread the row under it
and change it; a key change takes the buckets of the old and new key values in
ascending order.  INSERT holds `struct_mutex` from the allocation of the slot
to its publication and takes one bucket at a time below it.  The clear
(`delete_all_rows`) holds `struct_mutex` while it resets the chains, flips every
slot under its row lock and rebuilds the freelist.

## 2. The modules

**`FmSlot`** – one slot, its image copied word by word in any order.  Each
atomic load, store or lock of `fm_core_read_row`, `fm_core_write_image`, the
`_locked` update and delete, insert and clear is a step.  The other rows of the
table appear only as the outcome of a duplicate check.  A write statement calls
(`WriteRead`), waits for the row lock (`LockRow`), rereads and changes the row;
the waits are inside the call, so a lock that is never given back is seen by
`CallsReturn`.  Variables `state, gen,
seq, wlock, data` are the fields of `FM_SLOT`; `linked` is the set of buckets
whose chain holds the slot; `block` and `smutex` are the bucket locks and
`struct_mutex`; the rest are the locals of each thread.  History variables:
`img` and `wrote` (images completely written, with their generation), `seen`
(the values of the row since a call began) and `recycled` (an insert wrote into
the slot since the state check of the current read attempt).  The branch of
`update_row` and `delete_row` for a handler that does not hold the row lock
(`ha_fastmem.cc` 214–224, 232–242) is left out here and in `FmCore`: the server
changes only a row it has just read, and every such read takes the lock.

**`FmRow`** – the abstract row: a value that writers replace in one step; a
lookup answers with a value the row had between call and return.  `FmSlot`
contains the refinement mapping (`Lookup`), checked as `LookupsAtomic`.

**`FmCore`** – a table with several slots, hash keys, chains as head and next
links, the freelist as links, and all locks.  Copying an image is one step,
which is what `FmSlot` justifies for lookups, and for statements under the row
lock.  Every statement is a sequence of steps of one thread: lookup, cursor
loop (`index_next`), locked change, insert with rollback, clear.  `Mixes` lists
the sets of statements that may run beside each other; each behaviour picks one
of them.

**`FmAutoInc`** – the counter and its compare-and-swap loops; arithmetic modulo
`Top` (2^64 in the code).  A weak compare-and-swap that fails spuriously
changes nothing and is left out.  `Write` stands for every statement that stores
an explicit value: insert and update call `fm_update_auto_increment` alike.

**`FmRegistry`** – shares with `open_count` and `delete_on_close`, the list of
shares, and the handler of each thread.  One mutex section is one step, so the
window between the two sections of `ha_fastmem::open` is there.  Every allocation
may fail.  `fm_prepare_create_info` failing leaves the registry alone; a failure in
`fm_create` has already freed the stale share.  Some failures make the code use a
null pointer: `fm_open` without memory for the file (`ha_fastmem.cc` 152), no
chunks for a table with keys (the error exit of `fm_create` goes through
`keydef`), a share whose `keydef` or buckets were not allocated (`fm_create` looks
at the chunks only).  These end in `down`, where the server has stopped.  Whether
`keydef` is missing is decided when it is first used (`MayLackKeydef`).  The server is
external: it knows the tables, and its metadata locks (variable `mdl`) let
CREATE, TRUNCATE, DROP and RENAME run only when nobody has the table open.
`NoDangling`, `CountExact` and `Reclaimed` hold without these locks too: the
reference count defends itself.  `OneShare` and `NoGhostRows` need them.

**`FmSlotInv`, `FmSlotReadProofs`, `FmSlotProofs`, `FmAutoIncProofs`** – the
inductive invariants and the proofs.  **`MC...`** – instances for TLC.

Operators named "Mutant" in a comment are deliberate faults used to show that a
property can fail; no specification uses them.

## 3. What is checked

Passing runs:

| Run | Instance | Shows |
|---|---|---|
| `slot` | 3 threads, one call each, 2 words, 3 images, 2 keys, with the clear (312,227 states) | `SeqlockSound`, `RmwAtomic` |
| `slot_row` | 2 threads, 2 calls each, 2 words, 2 images, no clear, weak fairness (700,936) | `PositionSound`, `LookupSound`, `LookupComplete`, `FreeUnlinked`, `ChainedByKey`, `LookupsAtomic` (refinement of `FmRow`), `CallsReturn` |
| `core` | 2 threads × 2, one unique key whose NULL value repeats, chunks of 2, limit 3, no clear, weak fairness (83,033) | `IndexIntegrity`, `FreelistIntegrity`, `RowLimit`, `RecordsExact`, `LockOrder`, `StatementsEnd` |
| `core_mix` | 3 threads, two unique keys with NULL, two rows; inserts, selects and clears, or updates and deletes (422,017) | rollback of a refused insert, clear and key changes: `IndexIntegrity`, `FreelistIntegrity`, `UniqueKeys`, `RecordsExact`, `LockOrder` |
| `autoinc` | 3 threads, one call each, counter of 16 values, weak fairness (111,421) | `DisjointIntervals`, `FollowsSeries`, `ExplicitCovered`, `NeverBack`, `LoopsEnd` |
| `registry` | 3 threads × 2, 2 names, 3 allocations that may fail, with and without metadata locks (403,968) | `NoDangling`, `CountExact`, `Reclaimed`, `OneShare`, `NoGhostRows` |

One run per module also checks the type invariant.  Deadlock is checked in every
passing run but `slot`, where the system really may stop (`slot_deadlock`).
Inserts and key-changing updates on a unique key are kept in different mixes
because together they break uniqueness (`core_unique`); clears run without
deletes and updates in `core_mix` because of `slot_deadlock` and `core_clear`.
`LockOrder` leaves out the clear, which takes row locks under `struct_mutex`
(`slot_deadlock`).  `RowLimit` holds as a table grows and slots are used again;
after a clear it does not (`core_limit`).

DESIGN 99–102 expects that two key changes of one row may leave an orphan node
in a chain.  That is about the self-locking variant.  On the handler's path the
row lock covers the reread and the change, and `ChainedByKey` and
`IndexIntegrity` show that no orphan remains.

Runs that show where the code and its documentation disagree:

| Run | Documentation | What the code does |
|---|---|---|
| `slot_tear` | README 46, `fm_core.h` 134: reads are tear-free | insert into a recycled slot bypasses `seq`; a slow reader returns a mixed image |
| `slot_deadlock` | DESIGN 123–126: no deadlock | clear takes row locks under `struct_mutex`, delete the reverse |
| `core_unique` | `fm_core.h` 45–47: exactly one writer wins | a linked, unpublished record is invisible to an update's duplicate check |
| `core_next` | `fm_core.h` 561–563: first match if the row is gone | nothing is found; DELETE by key stops after one row |
| `core_limit` | `fm_core.h` 210: hard row limit | the clear puts the slots past the limit on the freelist |
| `core_clear` | `fm_core.h` 1044–1045: serialized with the clear | a key change links a slot into a chain already reset, and the slot is freed |

Smaller disagreements have a configuration of their own, outside the list of
runs.  Each one states one sentence of the documentation, which TLC refutes
(`tlc -config <cfg> <module of the same stem>`):

| Configuration | Documentation | What the code does |
|---|---|---|
| `MCFmSlotDangle.cfg` | README 51: stale references never dangle | the generation is checked before the copy only |
| `MCFmSlotPosition.cfg` | DESIGN 62–64: never the wrong row | the generation of a position is loaded after the bucket lock is released |
| `MCFmCoreErrKey.cfg` | `fm_core.h` 623: `*errkey` is the key index | the rollback has spent the counter it is computed from |
| `MCFmCoreReread.cfg` | `fm_data.cc` 93: a recycled row is refused | the present generation is taken as the expected one |
| `MCFmCoreRecords.cfg` | DESIGN 76: exact count | a delete may count before the insert does |
| `MCFmAutoIncFresh.cfg` | README 49: no duplicate ids | an explicit value is visible before the counter is raised |
| `MCFmAutoIncSmallest.cfg` | `fm_core.h` 1111: smallest congruent value | below the offset, the offset itself |
| `MCFmAutoIncReset.cfg` | README 53: reset supported | a lower value is ignored |
| `MCFmRegistryLost.cfg` | `fm_create.cc` 288: create *or find* | a late creator frees the share an earlier open filled and closed |

`MCFmRegistryNull.cfg` (`NoNullUse`) shows the null pointers described in
section 2; no sentence of the documentation is about them.

### Bounds

Two words make a torn image visible; two images with one key and one with
another give both update paths; three threads are a reader, a deleter and an
inserter, the smallest set that recycles a slot under a reader.  `MaxOps` bounds
the calls of a thread (in `FmCore` its lookups and inserts).  Chunks of two
slots with a limit of three make the last chunk reach past the limit.  Two
buckets per key, with three values where two would not collide, give shared and
distinct chains.  A unique key may repeat only its NULL value, and that is how
`index_next` meets a unique key in `core`.  Three shares let a freed table be made again beside an
internal temporary table.  A 16-value counter with
explicit values near the top reaches every overflow exit.  Memory is
sequentially consistent in all models; `seq` and `gen` do not wrap.

### Fairness

Weak fairness of each thread *inside* a call: the operating system goes on
running a thread that can run.  Nothing obliges a thread to start a call.  The
locks are spinlocks without a queue, so this is no fairness of the locks; it is
enough here because the number of calls is bounded, and a spinning thread is
overtaken only finitely often: `CallsReturn`, `StatementsEnd` and `LoopsEnd` say
that no lock and no odd `seq` is left behind, not that the code is wait-free.  Starvation by an endless stream of other
statements is possible in the code (DESIGN 126) and not excluded.

## 4. What is proved

For every number of threads, words, images, keys and buckets, and any number
of calls (`MaxOps` is an arbitrary natural number):

* `FmSlotProofs!Typing`: `Spec => []TypeOK`;
* `FmSlotProofs!SeqlockReads`: `Spec => [](SeqlockSound /\ PositionSound)`;
* `FmSlotProofs!LockedCycle`: `Spec => []RmwAtomic`.

`Spec` includes the clear.  The invariant `Inv` (`FmSlotInv`) is needed because
the properties speak of returned values only.  It says for each program point
what a thread holds: while `seq` is odd exactly one thread is in
`write_image`, and that thread owns the row lock; while `seq` is even and the
row is visible, `data` is the last complete image `img`; a reader that loaded
`s1` and was not overtaken by an insert has, for every word it copied, the word
now in `data`, or `seq` has moved past `s1`; who is between reread and write owns the row lock, so
`gen`, `state` and `data` cannot change under it.  `FmSlotReadProofs` shows the
reader's steps, `FmSlotProofs` the writers', the clear's and the theorems.

For every width of the counter, every set of requests that fit
(`SpanAssumption`) and any number of threads:

* `FmAutoIncProofs!CounterTyping`: `Spec => []TypeOK`;
* `FmAutoIncProofs!ReservationsDisjoint`: `Spec => []DisjointIntervals`;
* `FmAutoIncProofs!ExplicitBehindCounter`: `Spec => []ExplicitCovered`;
* `FmAutoIncProofs!CounterMonotone`: `Spec => NeverBack`.

The invariant adds to the properties that an interval ends exactly
`(nb - 1) * inc` past its first value and not past the counter, and that two
intervals lie one behind the other.  The lemmas `FirstBehind` and `LastExact`
show that the wrap-around tests of `fm_core_auto_inc_reserve` catch every
overflow of a request that fits.

The assumptions are those named in `FmSlot` and `FmAutoInc`; TLC evaluates them
on every run.

Only model-checked: everything about `FmCore` and `FmRegistry`, the refinement
of `FmRow`, `LookupSound`, `LookupComplete`, `FollowsSeries`, and all liveness
(out of reach of the prover).

## 5. Not modelled

Weak memory orders (the relaxed increment of `seq`), wrap-around of the 32-bit
`seq` and `gen`, the self-locking `fm_core_update_row` and `fm_core_delete_row`
(called by the standalone test only), the READ_CHECK comparison of debug builds,
`fm_extra`, `fm_info`, `find_unique_row`, key hashing and packing,
`fm_prepare_create_info`, costs and scripts.

## 6. Plan

1. `FmHandler`: the cursor of a write statement over `rnd_next`, `index_next` and
   `rnd_pos` with the moving row lock and the position life cycle; runs on two
   slots and two threads; that a scan visits every row that stays, and that the
   handler holds at most one row lock.
2. The self-locking variants in a module of their own beside `FmCore`, as the
   standalone test runs them.
3. `FmHash`: packing, hashing and comparison of keys as functions over small
   columns (equal keys hash alike; record and packed forms agree), TLC only.
4. Abstract table (a set of rows per key) that `FmCore` without clear implements
   for selects, inserts and deletes.
5. Proofs: `LockOrder` and `FreelistIntegrity` of `FmCore`; `NoDangling` and
   `CountExact` of `FmRegistry`; `LookupSound` and the refinement of `FmRow` from
   `RowSpec`.

# TLA+ models of slatedb-go

This directory holds TLA+ models of slatedb-go, with the TLC configurations that check them. They cover:

- the write path;
- the manifest and its conditional writes;
- a compactor;
- crash recovery and Close;
- sorted-run reads;
- an abstract specification of durability that the detailed model refines.

Every definition is translated from the Go source under `src/`. Some code is not in this repository: `state.go`, `db.go`, the manifest store and the compactor. Those definitions follow `spec.md` and are marked `spec_modelled` in `PROJECT.json`.

`PROJECT.json` maps each definition to the lines it models. It also lists the runs, the mutants, the findings and the hazards.

## 1. The system

| Part | Code | State | Operations |
|---|---|---|---|
| WAL, ImmutableWAL | `table/wal.go` | the mutable WAL's KVTable; ImmutableWALs `[id, table]` | `WAL.Put`, `WAL.Delete`, `NewImmutableWal` (through `DBState.FreezeWAL`) |
| DBState (not in src/) | spec 4.6 | memtable, ImmutableMemtables, L0, sorted runs, `l0_last_compacted`, `LastCompactedWalSSTID`, `NextWalSstID` | `FreezeWAL`, `PopImmWAL`, `freezeMemtable`, `MoveImmMemtableToL0`, `RefreshDBState`, `CoreStateSnapshot` |
| WAL flusher | `flush.go` 17-93 | per goroutine: its position in `flushImmWALs`, the ImmutableWAL it took, the memtable pointer it read | `spawnWALFlushTask` (ticker and close signal), `DB.FlushWAL` from API callers, `flushImmWALs`, `flushImmWAL`, `flushImmWALToMemtable` |
| Memtable flusher | `flush.go` 130-242 | per goroutine: its position in `flushImmMemtablesToL0` / `writeManifestSafely`, the memtable taken, the SST built, the snapshot; the message channel | ticker → `loadManifest`; `FlushImmutableMemtables` → `flushImmMemtablesToL0`; `Shutdown` → final `writeManifestSafely`; `DB.FlushMemtableToL0` from API callers |
| TableStore | `table/wal.go` 143-437 | the WAL SSTs in the object store | `WriteSST`, `getWalSSTList` |
| Manifest (not in src/) | spec 4.5 | the newest manifest generation and its core state; the writer's `FenceableManifest` generation | `Refresh`; conditional `UpdateDBState`, where a generation conflict is `AlreadyExists` |
| Compactor (not in src/) | spec 4.9 | its phase, the manifest it read, the run it merged | poll, merge L0 and the sorted run into one run, conditional manifest write |
| Open / Close / crash (not in src/) | spec 4.10, `TestSnapshotState` | the Close phase | a crash loses memory and goroutines; Open takes a new epoch and replays WAL SSTs; Close stops the two flush loops in turn |
| SortedRun | `sortedrun.go` (code and tests), `part_000` 1-186 | the SST list, the current SST iterator, the remaining list | `indexOfSSTWithKey` (linear and `sort.Search`), `sstWithKey`, the three constructors, `NextEntry`, `Next` |

The SST format, paths, the filter cache and block reads are I/O and encoding, and are not modelled.

How the parts interact:

- Clients write into the WAL.
- The WAL flush task freezes the WAL into an ImmutableWAL, uploads it as a WAL SST, pops it, applies it to the memtable and notifies the durable waiters.
- When the memtable reaches `L0SSTSizeBytes` it is frozen. A `FlushImmutableMemtables` message then wakes the memtable flush task.
- That task uploads the oldest ImmutableMemtable as an L0 SST and moves it into L0, which advances `LastCompactedWalSSTID`. It then writes the manifest: it loads the manifest, runs `RefreshDBState`, takes a snapshot and writes it conditionally. On `AlreadyExists` it starts again.
- The compactor reads the manifest and merges its L0 and sorted run into one run. It publishes the run with its own conditional write, setting `l0_last_compacted` to the newest SST it absorbed.
- After a crash, Open replays every WAL SST above the manifest's `LastCompactedWalSSTID`.
- Close signals the WAL task, which runs `FlushWAL` once more and exits. Close then sends `Shutdown` to the memtable task, which drains its channel, writes the manifest once more and exits.
- `FlushWAL` and `FlushMemtableToL0` are also public API. Their callers run the same loops as the tasks, concurrently with them.

## 2. Modules

**`SlateDB.tla`** is the write path, the manifest, the compactor, Open and Close. Data is abstracted as follows:

- The value of a write is its global sequence number, so "newer" means "larger". A tombstone flag is carried with it.
- A KVTable is a function from `Keys` to an entry or `NoEntry`.
- An SST is the table it was built from, with an id.
- A memtable object is identified by `gen`. This lets a goroutine hold a pointer to a memtable that has since been frozen.
- A compaction drops the tombstones it merges. The ghost variable `erased` records the newest tombstone it dropped per key, so the properties compare sequence numbers through `ReadSeq`.

Each goroutine is a process with a program counter (`wf`, `mf`, `cp`, `client`, `closer`). Each step of a loop in the code is one action, in the code's order:

- **WAL flusher:** `FlushWAL` → `OldestImmWAL` → `FlushImmWAL` / `FlushImmWALFails` → `PopImmWAL` → `FlushImmWALToMemtable` → `MaybeFreezeAfterWAL` → `NotifyWALFlushed`. `WalTaskClose` is the close branch: one last `FlushWAL` (with `last`), then the goroutine ends, even after a failed upload.
- **Memtable flusher:**
  - `MemFlushTaskReceive` / `FlushMemtableToL0` → `OldestImmMemtable` → `FlushImmMemtable` / `FlushImmMemtableFails` → `MoveToL0` → `WriteManifestLoad` / `WriteManifestLoadFails` → `WriteManifestSnapshot` → `UpdateDBState` / `UpdateDBStateAlreadyExists` / `UpdateDBStateFails`.
  - `MemFlushTaskTick` is the ticker's `loadManifest`.
  - `MemFlushTaskShutdown` is the `Shutdown` message once the channel is empty. It runs the final `writeManifestSafely`, and `AfterManifestWrite` ends the goroutine after it.
- **Compactor:** `CompactorPoll` → `CompactorMerge` / `CompactorMergeFails` → `CompactorWrite` / `CompactorAlreadyExists`.
- **Close:** `CloseSignalWAL` → `CloseSignalMem` → `CloseDone`. Each waits for the goroutine it stopped.
- **`CrashAndOpen`** resets all goroutines and memory, bumps the manifest epoch and replays the WAL SSTs (`ReplayWAL`). `nextWalId` continues after the last replayed id.

History variables record two things: the newest write per key (`latest`) and the newest acknowledged durable write (`acked`).

Fault model:

- Every object-store call may fail: the WAL upload, the L0 upload, the manifest load and write, and the compactor's merge. The constant `StoreFailsWhile` names the Close phases in which failures are possible.
- A crash may happen at any step.
- `MaxCrashes`, `MaxWrites`, `MaxApiFlushes`, `MaxCompactions` and `MaxCloses` bound the run.

A second fault comes from the object store: an upload that is in flight when the process crashes may still land later. With `UploadsOutliveCrash = TRUE`, `CrashAndOpen` keeps every WAL upload that a flusher had started (`lateUploads`), and `LateWalUpload` performs one of them at any later point. `WriteSST` (wal.go:216) is a plain `Upload`, so such an upload replaces whatever is stored under its id by then. `LateWalUpload` is a step only of `SpecLateUploads` (`NextLateUploads == Next \/ LateWalUpload`), which only the late_upload run uses. The passing runs leave the fault out because, with it, every property that reads the store after an Open fails for the reason that run shows.

**`DurableKV.tla`** is the abstract specification: what the store promises about its data, with no tiers or goroutines. For each key it keeps three values:

- `written`: the newest write;
- `durable`: the newest write that an Open would return;
- `acked`: the newest write whose AwaitDurable Put returned.

Its actions are:

- `Write`: a write makes a key newer.
- `Persist`: durable writes move up, but never past `written`.
- `Ack`: a Put returns only for a durable write.
- `Crash`: everything that was not durable is lost.

Its liveness property, `AllWritesEventuallyDurable`, is `[]<>(durable = written)`.

`SlateDB.tla` instantiates it as `KV`. The refinement mapping is:

- `written` maps to `latest`;
- `durable` maps to what `OpenRead` would return from the stored manifest and WAL SSTs, which is what an Open would replay;
- `acked` maps to `acked`.

It checks `KVRefinement == KV!Spec` and `KVEventuallyDurable`. `OpenRead` is written in closed form: the newest WAL SST above `LastCompactedWalSSTID` that holds the key, else the manifest's L0 and sorted runs. While writing it, a one-off TLC run (no cfg kept) compared it with a step-by-step replay of the WAL SSTs; the runs do not re-check that equivalence, but `KVRefinement` and `AckedWritesVisible` would fail if the closed form read the wrong table. The closed form keeps the refinement check fast.

**`MCSlateDB.tla`** declares the model values: the keys, the clients and the flush goroutines. It also declares the sets the configurations use.

**`SortedRun.tla`** covers the sorted-run code:

- Both copies of `indexOfSSTWithKey` are operators. `LinearScan` is RECURSIVE, and `sort.Search` is written as the least index whose predicate holds. Both are checked against `IndexReference`.
- An iterator is built in one of three ways:
  - `NewSortedRunIterator`, with no key;
  - `NewSortedRunIteratorFromKeyLinear`, for the `slatedb` package;
  - `NewSortedRunIteratorFromKey`, for the `compaction` package.
  - Each goes through `newSortedRunIter` and `SSTListIterator.Next` (`SSTListNext`).
- Each iterator is stepped by `NextEntry`, or by `Next`, which skips tombstones. The failure paths are actions too. In the `slatedb` copy a failed read returns an error (`NextEntryReadError`). In the `compaction` copy (`part_000`) a failed SST read is swallowed into `Warnings()` and iteration goes on with the next SST (`NextEntrySSTReadFails`, lines 134-141); a failed `NewIterator` for the next SST ends the iteration with a warning (`NextEntryOpenNextSSTFails`, 151-155); and the constructor may return `(nil, err)` (`NewSortedRunIterFails`, 90-97, an initial state). `IteratorYieldsSuffix` says the output is always in order and drawn from the expected suffix, that without a warning it is a prefix of it, and that a finished iteration with neither warning nor error yields the whole suffix: an entry goes missing only when it is reported.
- This is done over every sorted run of up to four keys with tombstones, and every seek key from below the range to above it.
- The runs that `sortedrun.go`'s own tests build are added as initial states, at the tests' size. `BuildSRWithSSTs` makes three SSTs of ten consecutive keys; `OrderedBytesGenerator` yields increasing keys, which become the numbers 1..30. Each test (`TestOneSstSRIter`, `TestManySstSRIter`, `TestSRIterFromKey`, `...LowerThanRange`, `...HigherThanRange`) is a definition giving its run and its seek keys. The tests drive the `slatedb` copy through `Next`. Their assertions are the same properties, checked over 30 seek keys and SSTs of ten entries.

### Modelling choices the source leaves open

`state.go`, `db.go` and the compactor are not in src/, so some choices come from the spec and the tests:

- **Committed Get** consults the memtable, the ImmutableMemtables newest first, then L0, then the sorted runs. **Uncommitted Get** puts the WAL and the ImmutableWALs first. This follows `TestShouldReadOnlyCommittedData` and `TestPutGetDelete`.
- **`RefreshDBState`** takes the sorted runs and `l0_last_compacted` from the manifest. It cuts the local L0 at `l0_last_compacted`: it drops what a compaction absorbed and keeps the SSTs flushed since. It takes the maximum `NextWalSstID`, and drops the ImmutableWALs that L0 covers.
  - Spec 4.6, read literally, replaces L0 and `LastCompactedWalSSTID` with the manifest's values. An earlier version of this project checked that reading: it deletes the SST that `MoveImmMemtableToL0` has just put into L0, before the manifest write publishes it (flush.go:193-203). That would lose writes that spec 4.10 says are durable. The model therefore implements the reading that keeps them: the cut.
- **Popping an empty queue** is a no-op.
- **A new memtable** has `lastWalId` 0.
- **The Close order** is taken from `TestSnapshotState`: the WAL task stops first, then the memtable task. The compactor is not stopped (spec 4.10 says Close "signals both loops").

## 3. Runs

| Run | Config | Bounds | Checks | Result |
|---|---|---|---|---|
| safety | `MCSlateDB_safety.cfg` | 1 key, 1 client, WAL task, memtable task, threshold 1, 3 writes, 1 crash | `TypeOK`, `AckedWritesVisible`, `PrecedenceRespected`, `CommittedReadsMonotonic`, `WalSSTNeverOverwritten` | pass (~755k states) |
| liveness | `MCSlateDB_liveness.cfg` | as safety, 2 writes, 1 crash, 1 Close with the store up while closing, `FairSpec` | `DurablePutReturns`, `KVEventuallyDurable`, `CloseLeavesEverythingRecoverable` | pass (~132k states, ~1.5 min) |
| api_safety | `MCSlateDB_api_safety.cfg` | task + one `FlushMemtableToL0` caller, threshold 1 (so both flush), 1 write, 1 crash | `KVRefinement`: the api/task race of api_memflush hides a write from reads but never loses it from what Open reads | pass (~117k states) |
| compaction | `MCSlateDB_compaction.cfg` | as safety, 2 writes, 2 compactor polls, 1 crash | `AckedWritesVisible`, `PrecedenceRespected`, `KVRefinement`, `CommittedReadsMonotonic`, `ManifestMonotonic` | pass (~188k states, ~1 min) |
| sortedrun | `SortedRun.cfg` | keys 1..4, seek keys 0..5 and none, both copies, `NextEntry` and `Next`, their error and warning paths; the five test runs of `sortedrun.go` | `TypeOK`, `IndexOfSSTWithKeyCorrect`, `IteratorYieldsSuffix`, `IteratorTerminates` | pass |
| uncommitted | `MCSlateDB_uncommitted.cfg` | as liveness, no fairness | `UncommittedReadsLatest` | violation |
| concurrent_flushwal | `MCSlateDB_concurrent_flushwal.cfg` | ticker + one API `FlushWAL` caller | `CommittedReadsMonotonic` | violation |
| memflush_retry | `MCSlateDB_memflush_retry.cfg` | as liveness | `ImmMemtablesEventuallyFlushed` | violation |
| api_memflush | `MCSlateDB_api_memflush.cfg` | task + `FlushMemtableToL0` caller, threshold 2 | `AckedWritesVisible` | violation |
| api_precedence | `MCSlateDB_api_precedence.cfg` | task + `FlushMemtableToL0` caller, threshold 1 | `PrecedenceRespected` | violation |
| compaction_api | `MCSlateDB_compaction_api.cfg` | task + `FlushMemtableToL0` caller + compactor, 2 writes | `ManifestMonotonic` | violation |
| late_upload | `MCSlateDB_late_upload.cfg` | as safety, 2 writes, 2 crashes, `UploadsOutliveCrash = TRUE` | `AckedWritesVisible` | violation |

The liveness run does not check for deadlock. After Close, only an Open may still run, and once the crash bound is used up nothing is enabled. Such a state is a closed database, not a deadlock. The other MCSlateDB runs check for deadlock.

`CloseLeavesEverythingRecoverable` says that once Close returns, the manifest holds the writer's L0 and its `LastCompactedWalSSTID`, and an Open would read back every write. It is checked in the liveness run, because that is the run where Close is enabled.

### What the violations show

The details are under "findings" in `PROJECT.json`.

- **uncommitted:** `flushImmWALs` pops the ImmutableWAL (flush.go:67) before it applies it to the memtable (:70). In between, an Uncommitted Get misses the write.
- **concurrent_flushwal:** two `FlushWAL` callers apply ImmutableWALs out of id order, so a Committed Get goes back to an older value.
- **memflush_retry:** after a failed L0 upload the memtable task never retries, because its ticker only reloads the manifest.
- **api_memflush:** `FlushMemtableToL0` freezes and uploads the memtable that the WAL flusher has read (flush.go:70) but not yet written into. The acknowledged write then disappears from reads until the next Open.
- **api_precedence:** the task and an API caller flush the same ImmutableMemtable. The later `MoveImmMemtableToL0` pops a different memtable and prepends old data over newer data in L0.
- **compaction_api:** the sequence is:
  1. A `FlushMemtableToL0` caller snapshots the core state.
  2. The compactor publishes a new generation.
  3. The task's ticker refreshes the shared `FenceableManifest` (flush.go:151).
  4. The caller's stale snapshot passes the generation check and overwrites the compaction: `l0_last_compacted` goes back.
- **late_upload:** the sequence is:
  1. The WAL task uploads WAL SST N, and the process crashes before the upload completes.
  2. Open finds no SST N, so the new process reuses id N for new writes.
  3. It uploads them and acknowledges them.
  4. The old upload then lands and replaces them, because `WriteSST` is a plain `Upload` (wal.go:216).
  5. After the next Open, the acknowledged write is gone.

  Fencing protects only the manifest. WAL SSTs are not fenced.

### Why the bounds are enough

One key is enough for every property here, because each one is about the versions of a single key across tiers.

Three writes with threshold 1 give:

- two ImmutableWALs in flight while an ImmutableMemtable is being flushed;
- two L0 SSTs holding the same key;
- a crash between an L0 move and its manifest write, followed by a replay of more than one WAL SST.

In the compaction run, two writes and two polls give:

- a compaction of an L0 that is older than the local L0;
- a second compaction over an existing sorted run;
- a compaction racing the memtable task's manifest write, both before and after a crash.

The mutants show that the bounds are enough. Every property of every passing run is broken by a plausible bug in the definition it depends on. Each is listed in `PROJECT.json`:

- the ImmutableWAL popped or notified early;
- the first WAL SST above the compaction point skipped, or the list sorted descending;
- a frozen WAL that does not advance `NextWalSstID`;
- the WAL not frozen;
- an L0 SST id reused;
- a merge where the oldest write wins, or one that drops entries;
- L0 not cut at `l0_last_compacted`;
- an unconditional manifest write;
- a close branch that does not flush;
- `FlushWAL` that does not freeze the WAL (this breaks the refinement's liveness);
- the waiter notified before the pop (this breaks the refinement);
- `FlushMemtableToL0` freezing the memtable with the state's newest WAL id instead of the memtable's own (this breaks the refinement in api_safety);
- the compaction copy dropping a failed SST read without recording it in `Warnings()`, or not checking for an absent iterator;
- a `>=` in `sort.Search`.

### Fairness

Fairness is in `FairSpec`, used only by the liveness runs:

- The tickers are periodic, so the WAL and memtable flush loops get weak fairness.
- A woken waiter gets weak fairness.
- Object-store steps that may fail (the uploads, the manifest load and the manifest update) get strong fairness: an operation retried forever eventually succeeds.
- Issuing writes, timeouts, crashes, Close and API calls get no fairness.

## 4. Hazards

`PROJECT.json` lists each hazard at its line, with the properties that cover it:

- flushers interleaving on the same queues;
- the stale memtable pointer;
- the order of pop, apply and notify;
- the upload that is never retried;
- crash recovery through `getWalSSTList` and `NextWalSstID`;
- the `AlreadyExists` retry of `writeManifestSafely` and the stale snapshot after a refresh;
- the refresh between the L0 move and the snapshot;
- the final manifest write on Shutdown;
- the last `FlushWAL` on close that may fail;
- a WAL upload from a crashed process that lands after Open;
- the boundary cases of `indexOfSSTWithKey`;
- an SST read failure in the compaction iterator, visible only through `Warnings()` (`part_000`:138).

Where no property covers a hazard, its entry says why.

## 5. Further work

These extensions are not done yet. Each one would need a run of its own, and the project already uses all twelve runs.

1. **Fencing with a zombie writer:** a second writer with an older epoch that keeps running after an Open.
   - Its manifest writes are fenced.
   - Its WAL SST uploads are not fenced, because `WriteSST` is a plain `Upload`. So it would hit the same overwrite that the late_upload run shows, through a second path.
2. **Iterator composition:** a merge iterator over the memtable, L0 and the sorted runs, built on `SortedRun`. The merge iterator is not in `src/`. Its property would be `TestFlushWhileIterating`'s claim.
3. **Liveness of compaction:** under fairness, L0 is eventually absorbed into the sorted run. This needs the compactor's poll bound (`MaxCompactions`) replaced by a state constraint.

## 6. Not modelled

- The SST format, blocks, bloom filters and the filter cache. These are encoding: an SST is its table.
- Object-store paths and `parseID`. These are formatting: ids are numbers.
- Several compactors, or a compactor in another process with its own epoch.
- `cmd/main.go`, a demo. It is one client that does Put, Get, Delete, Get and Close in sequence. That is a special case of the client processes that the model already runs. Its printed outcomes rest on `AckedWritesVisible` (the Gets), `DurablePutReturns` (the Puts) and `CloseLeavesEverythingRecoverable` (the Close), which are checked for every client. It discards Open's error (main.go:21), so a failed Open would panic at the first Put. Open never fails in the model, so no run reaches that; it is listed as a hazard.
- Value bytes, including the distinction between an empty value and a tombstone. `flushImmTable` (flush.go:104) writes a tombstone as a nil value. Whether that nil stays distinct from an empty value is decided by the SST builder, which is not in src/.
- The filter cache (wal.go:255-277). After a late upload, the new process's cached filter for that WAL SST is stale. That does no harm, because WAL SSTs are read back only by the next Open's replay, which starts with an empty cache.
- `EncodedSSTableWriter` (wal.go:330-392), which is used only by the compactor, itself modelled at the level of spec 4.9.
- Context deadlines, apart from the failures they cause, which the `...Fails` actions model.

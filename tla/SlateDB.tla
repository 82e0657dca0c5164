------------------------------- MODULE SlateDB -------------------------------
(***************************************************************************)
(* The write path of slatedb-go: client writes into the mutable WAL, the   *)
(* WAL flusher (flush.go FlushWAL / flushImmWALs) that freezes the WAL,     *)
(* uploads each ImmutableWAL as a WAL SST, replays it into the memtable     *)
(* and notifies durable waiters, the memtable flusher (flush.go            *)
(* flushImmMemtablesToL0 / writeManifestSafely) that uploads frozen        *)
(* memtables as L0 SSTs and publishes the manifest, and a process crash    *)
(* followed by Open, which replays the WAL SSTs not yet covered by L0.     *)
(*                                                                         *)
(* Data is abstracted: a value is the sequence number of the write that    *)
(* produced it (so "newer" is "larger"), a KVTable is a function from Keys *)
(* to an entry or NoEntry, an SST is the table it was built from.  The     *)
(* size of a table is its number of keys; L0SSTSizeBytes is in those       *)
(* units.                                                                  *)
(***************************************************************************)
EXTENDS Integers, Sequences, FiniteSets, SequencesExt

CONSTANTS
    Keys,           \* keys the clients write
    Clients,        \* client goroutines calling PutWithOptions/DeleteWithOptions
    WalFlushers,    \* goroutines running FlushWAL (the flush task, API callers)
    WalFlushTask,   \* the member of WalFlushers that is the WAL flush task
    MemFlushers,    \* goroutines running flushImmMemtablesToL0
    MemFlushTask,   \* the member of MemFlushers that is the memtable flush task
    L0SSTSizeBytes, \* memtable freeze threshold, in keys
    MaxWrites,      \* bound: number of Put/Delete calls
    MaxCrashes,     \* bound: number of crash-and-Open cycles
    MaxApiFlushes,  \* bound: number of FlushMemtableToL0 API calls
    MaxCompactions, \* bound: number of compactor polls (0: no compactor)
    MaxCloses,      \* bound: number of DB.Close calls
    StoreFailsWhile, \* phases of Close in which object-store calls may fail
    UploadsOutliveCrash \* TRUE: a WAL SST upload sent before a crash may
                        \* still land in the object store after the Open

ASSUME L0SSTSizeBytes \in Nat \ {0}
ASSUME MaxWrites \in Nat /\ MaxCrashes \in Nat /\ MaxApiFlushes \in Nat
ASSUME MaxCompactions \in Nat
ASSUME MaxCloses \in Nat /\ UploadsOutliveCrash \in BOOLEAN
ClosePhases == {"open", "walSignaled", "memSignaled", "closed"}
ASSUME StoreFailsWhile \subseteq ClosePhases

VARIABLES
    wal,                \* the mutable WAL's KVTable
    immWALs,            \* ImmutableWALs [id, table], oldest first
    nextWalId,          \* core.NextWalSstID: id the mutable WAL will get
    memtable,           \* [gen, table, lastWalId]; gen identifies the object
    immMemtables,       \* ImmutableMemtables [gen, table, lastWalId], oldest first
    l0,                 \* core.L0: SST handles [id, table], newest first
    lastCompactedWalId, \* core.LastCompactedWalSSTID
    memGen,             \* generation of the current memtable object
    sstCtr,             \* ULIDs handed out for L0 SSTs
    walSST,             \* object store: WAL SSTs, id -> table
    lateUploads,        \* WAL SST uploads [id, table] of a crashed process
                        \* still on their way to the object store
    manifest,           \* object store: newest manifest generation
    manifestId,         \* generation the (shared) FenceableManifest last read/wrote
    notified,           \* ids of ImmutableWALs whose durable signal fired
    flushMsgs,          \* FlushImmutableMemtables messages queued in the channel
    wf,                 \* WAL flusher goroutines: pc and locals
    mf,                 \* memtable flusher goroutines: pc and locals
    client,             \* client goroutines: pc and the write they await
    latest,             \* history: newest entry written per key
    acked,              \* history: newest seq per key whose durable Put returned
    seq,                \* history: number of writes so far
    crashes,            \* crash counter
    apiFlushes,         \* FlushMemtableToL0 call counter
    compacted,          \* core.compacted: sorted runs, each as its table
    l0LastCompacted,    \* core.l0_last_compacted: SST id, 0 for none
    cp,                 \* compactor: pc, the manifest it read, the run it built
    compactions,        \* compactor poll counter
    erased,             \* history: newest tombstone seq per key that a
                        \* published compaction dropped
    closer,             \* DB.Close: "open", "walSignaled", "memSignaled", "closed"
    closes              \* Close call counter

memVars == <<wal, immWALs, nextWalId, memtable, immMemtables, l0,
              lastCompactedWalId, memGen, sstCtr>>
storeVars == <<walSST, lateUploads, manifest, manifestId>>
procVars == <<notified, flushMsgs, wf, mf, client>>
histVars == <<latest, acked, seq, crashes, apiFlushes>>
compVars == <<compacted, l0LastCompacted, cp, compactions, erased>>
closeVars == <<closer, closes>>
vars == <<memVars, storeVars, procVars, histVars, compVars, closeVars>>

-----------------------------------------------------------------------------
(* KVTable *)

Entry == [seq : 1..MaxWrites, tomb : BOOLEAN]
NoEntry == [seq |-> 0, tomb |-> FALSE]
Table == [Keys -> Entry \cup {NoEntry}]
EmptyTable == [k \in Keys |-> NoEntry]

\* WAL.IsEmpty: the table holds no entry
IsEmpty(t) == t = EmptyTable

\* KVTable.put of every entry of src into dst (memtable.Put in a loop)
PutAll(dst, src) == [k \in Keys |-> IF src[k] = NoEntry THEN dst[k] ELSE src[k]]

\* KVTable size: one unit per key present (tombstones included)
TableSize(t) == Cardinality({k \in Keys : t[k] # NoEntry})

\* The tables of a sequence of records carrying a .table field
TablesOf(s) == [i \in 1..Len(s) |-> s[i].table]

\* Read resolution: the entry of the first table of ts holding k
RECURSIVE FirstHit(_, _)
FirstHit(k, ts) ==
    IF ts = <<>> THEN NoEntry
    ELSE IF Head(ts)[k] # NoEntry THEN Head(ts)[k] ELSE FirstHit(k, Tail(ts))

-----------------------------------------------------------------------------
(* DB state and reads (state.go / db.go are modelled from spec 4.6, 4.10) *)

\* Tiers consulted by a Committed read: memtable, immutable memtables
\* newest first, L0 newest first, then the sorted runs.
CommittedTiers ==
    <<memtable.table>> \o Reverse(TablesOf(immMemtables)) \o TablesOf(l0)
        \o compacted

\* Tiers consulted by an Uncommitted read: WAL and immutable WALs first.
UncommittedTiers ==
    <<wal>> \o Reverse(TablesOf(immWALs)) \o CommittedTiers

CommittedRead(k) == FirstHit(k, CommittedTiers)

\* The write a read result stands for: KeyNotFound after a compaction
\* dropped a tombstone stands for that delete
ReadSeq(k, e) == IF e = NoEntry THEN erased[k] ELSE e.seq
UncommittedRead(k) == FirstHit(k, UncommittedTiers)

\* (mutant) the ImmutableWAL gets NextWalSstID but the counter is not advanced
FreezeWALKeepsId ==
    IF IsEmpty(wal)
    THEN UNCHANGED <<wal, immWALs, nextWalId>>
    ELSE /\ immWALs' = Append(immWALs, [id |-> nextWalId, table |-> wal])
         /\ wal' = EmptyTable
         /\ UNCHANGED nextWalId

\* DBState.FreezeWAL: no-op on an empty WAL
FreezeWAL ==
    IF IsEmpty(wal)
    THEN UNCHANGED <<wal, immWALs, nextWalId>>
    ELSE /\ immWALs' = Append(immWALs, [id |-> nextWalId, table |-> wal])
         /\ wal' = EmptyTable
         /\ nextWalId' = nextWalId + 1

\* DBState.PopImmWAL: removes the oldest, whichever it is
PopOldest(s) == IF s = <<>> THEN s ELSE Tail(s)

\* DBState.freezeMemtable(walID): the memtable joins the queue with walID
FreezeMemtable(walId) ==
    /\ immMemtables' = Append(immMemtables,
            [gen |-> memtable.gen, table |-> memtable.table, lastWalId |-> walId])
    /\ memtable' = [gen |-> memGen + 1, table |-> EmptyTable, lastWalId |-> 0]
    /\ memGen' = memGen + 1

\* db.maybeFreezeMemtable: freeze at the size threshold and wake the
\* memtable flush task
MaybeFreezeMemtable(walId) ==
    IF TableSize(memtable.table) >= L0SSTSizeBytes
    THEN /\ FreezeMemtable(walId)
         /\ flushMsgs' = flushMsgs + 1
    ELSE UNCHANGED <<memtable, immMemtables, memGen, flushMsgs>>

\* (mutant) the flushed SST is appended to L0 instead of prepended
MoveImmMemtableToL0Append(imm, sst) ==
    /\ immMemtables' = PopOldest(immMemtables)
    /\ l0' = Append(l0, sst)
    /\ lastCompactedWalId' = imm.lastWalId

\* DBState.MoveImmMemtableToL0: drop the oldest immutable memtable,
\* prepend its SST to L0, advance LastCompactedWalSSTID
MoveImmMemtableToL0(imm, sst) ==
    /\ immMemtables' = PopOldest(immMemtables)
    /\ l0' = <<sst>> \o l0
    /\ lastCompactedWalId' = imm.lastWalId

\* DBState.CoreStateSnapshot
CoreState == [l0 |-> l0, lastCompactedWalId |-> lastCompactedWalId,
              nextWalId |-> nextWalId, l0LastCompacted |-> l0LastCompacted,
              compacted |-> compacted]

\* (mutant) the SSTs a compaction absorbed are kept in local L0
L0KeepsCompacted(ssts, lastCompacted) == ssts

\* The L0 SSTs (newest first) above the SST with id lastCompacted: the
\* scan stops at it, and keeps all when it is absent
L0AboveLastCompacted(ssts, lastCompacted) ==
    LET i == SelectInSeq(ssts, LAMBDA sst : sst.id = lastCompacted)
    IN IF i = 0 THEN ssts ELSE SubSeq(ssts, 1, i - 1)

\* DBState.RefreshDBState(manifest core).  Sorted runs and l0_last_compacted
\* are taken from the manifest and NextWalSstID is the max of local and
\* remote.  Local L0 loses the SSTs a compaction absorbed and keeps those
\* flushed since; ImmutableWALs covered by L0 are dropped.  (Spec 4.6 says
\* L0 is "replaced" by the manifest's; taken literally that would drop an
\* SST moved to L0 but not yet published, see README.)
RefreshDBState(m) ==
    /\ nextWalId' = IF m.nextWalId > nextWalId THEN m.nextWalId ELSE nextWalId
    /\ compacted' = m.compacted
    /\ l0LastCompacted' = m.l0LastCompacted
    /\ l0' = L0AboveLastCompacted(l0, m.l0LastCompacted)
    /\ immWALs' = SelectSeq(immWALs, LAMBDA w : w.id > lastCompactedWalId)
    /\ UNCHANGED <<lastCompactedWalId, immMemtables>>

-----------------------------------------------------------------------------
(* Object store (TableStore, wal.go) *)

\* TableStore.WriteSST of a WAL SST: upload under wal/<id>.sst
WriteWalSST(id, t) ==
    walSST' = [i \in DOMAIN walSST \cup {id} |-> IF i = id THEN t ELSE walSST[i]]

\* (mutant) the WAL SST ids are sorted in descending order
WalSSTListDescending(lastCompacted) ==
    SetToSortSeq({i \in DOMAIN walSST : i > lastCompacted}, >)

\* (mutant) off by one: the first WAL SST above walIDLastCompacted is skipped
WalSSTListSkipsFirst(lastCompacted) ==
    SetToSortSeq({i \in DOMAIN walSST : i > lastCompacted + 1}, <)

\* TableStore.getWalSSTList: ids above walIDLastCompacted, ascending
WalSSTList(lastCompacted) ==
    SetToSortSeq({i \in DOMAIN walSST : i > lastCompacted}, <)

-----------------------------------------------------------------------------
(* Goroutine-local state *)

NoImmWAL == [id |-> 0, table |-> EmptyTable]
NoImmMem == [gen |-> 0, table |-> EmptyTable, lastWalId |-> 0]
NoSST == [id |-> 0, table |-> EmptyTable]
InitCore == [l0 |-> <<>>, lastCompactedWalId |-> 0, nextWalId |-> 1,
             l0LastCompacted |-> 0, compacted |-> <<>>]
NoCompaction == [pc |-> "idle", read |-> [gen |-> 0] @@ InitCore, run |-> EmptyTable]

WalIdle == [pc |-> "idle", imm |-> NoImmWAL, mem |-> 0, last |-> FALSE]
MemIdle == [pc |-> "idle", imm |-> NoImmMem, sst |-> NoSST, snap |-> InitCore,
            ret |-> "oldest"]

\* An object-store call may fail in this phase of Close
StoreMayFail == closer \in StoreFailsWhile
ClientIdle == [pc |-> "idle", key |-> CHOOSE k \in Keys : TRUE, seq |-> 0, walId |-> 0]

WalPc(f, from, to) == wf[f].pc = from /\ wf' = [wf EXCEPT ![f].pc = to]
MemPc(m, from, to) == mf[m].pc = from /\ mf' = [mf EXCEPT ![m].pc = to]

Init ==
    /\ wal = EmptyTable
    /\ immWALs = <<>>
    /\ nextWalId = 1
    /\ memtable = [gen |-> 1, table |-> EmptyTable, lastWalId |-> 0]
    /\ immMemtables = <<>>
    /\ l0 = <<>>
    /\ lastCompactedWalId = 0
    /\ memGen = 1
    /\ sstCtr = 0
    /\ walSST = <<>>
    /\ lateUploads = {}
    /\ manifest = [gen |-> 1] @@ InitCore
    /\ manifestId = 1
    /\ notified = {}
    /\ flushMsgs = 0
    /\ wf = [f \in WalFlushers |-> WalIdle]
    /\ mf = [m \in MemFlushers |-> MemIdle]
    /\ client = [c \in Clients |-> ClientIdle]
    /\ latest = [k \in Keys |-> NoEntry]
    /\ acked = [k \in Keys |-> 0]
    /\ seq = 0
    /\ crashes = 0
    /\ apiFlushes = 0
    /\ compacted = <<>>
    /\ l0LastCompacted = 0
    /\ cp = NoCompaction
    /\ compactions = 0
    /\ erased = [k \in Keys |-> 0]
    /\ closer = "open"
    /\ closes = 0

-----------------------------------------------------------------------------
(* Clients: DB.PutWithOptions / DeleteWithOptions write the mutable WAL    *)
(* under its lock (wal.go WAL.Put / WAL.Delete), capture the KVTable, and  *)
(* with AwaitDurable block on its durable signal.  The mutable WAL is the  *)
(* one that FreezeWAL will give id nextWalId.                              *)

WriteWithOptions(c, k, tomb, awaitDurable) ==
    /\ closer = "open"
    /\ client[c].pc = "idle"
    /\ seq < MaxWrites
    /\ LET e == [seq |-> seq + 1, tomb |-> tomb] IN
         /\ wal' = [wal EXCEPT ![k] = e]
         /\ latest' = [latest EXCEPT ![k] = e]
    /\ seq' = seq + 1
    /\ client' = IF awaitDurable
                 THEN [client EXCEPT ![c] = [pc |-> "wait", key |-> k,
                                             seq |-> seq + 1, walId |-> nextWalId]]
                 ELSE client
    /\ UNCHANGED <<immWALs, nextWalId, memtable, immMemtables, l0,
                   lastCompactedWalId, memGen, sstCtr, storeVars,
                   notified, flushMsgs, wf, mf, acked, crashes, apiFlushes, compVars, closeVars>>

\* KVTable.AwaitWALFlush returns once the table's durable signal fired
AwaitDurable(c) ==
    /\ client[c].pc = "wait"
    /\ client[c].walId \in notified
    /\ acked' = [acked EXCEPT ![client[c].key] =
                    IF @ > client[c].seq THEN @ ELSE client[c].seq]
    /\ client' = [client EXCEPT ![c] = ClientIdle]
    /\ UNCHANGED <<memVars, storeVars, notified, flushMsgs, wf, mf,
                   latest, seq, crashes, apiFlushes, compVars, closeVars>>

\* The caller's context expires first: the write stays in the WAL
AwaitDurableTimeout(c) ==
    /\ client[c].pc = "wait"
    /\ client' = [client EXCEPT ![c] = ClientIdle]
    /\ UNCHANGED <<memVars, storeVars, notified, flushMsgs, wf, mf, histVars, compVars, closeVars>>

-----------------------------------------------------------------------------
(* WAL flusher: spawnWALFlushTask ticks call FlushWAL; the API FlushWAL    *)
(* runs the same code on the caller's goroutine.                           *)

\* (mutant) the flush drains the queue without freezing the mutable WAL
FlushWALNoFreeze(f) ==
    /\ WalPc(f, "idle", "oldest")
    /\ UNCHANGED <<wal, immWALs, nextWalId>>
    /\ UNCHANGED <<memtable, immMemtables, l0, lastCompactedWalId, memGen,
                   sstCtr, storeVars, notified, flushMsgs, mf, client, histVars, compVars, closeVars>>

\* FlushWAL: FreezeWAL, then enter the flushImmWALs loop
FlushWAL(f) ==
    /\ WalPc(f, "idle", "oldest")
    /\ FreezeWAL
    /\ UNCHANGED <<memtable, immMemtables, l0, lastCompactedWalId, memGen,
                   sstCtr, storeVars, notified, flushMsgs, mf, client, histVars, compVars, closeVars>>

\* (mutant) the task returns on the close signal without flushing
WalTaskCloseNoFlush(f) ==
    /\ f = WalFlushTask
    /\ closer = "walSignaled"
    /\ WalPc(f, "idle", "exited")
    /\ UNCHANGED <<memVars, storeVars, notified, flushMsgs, mf, client, histVars,
                   compVars, closeVars>>

\* The task's select takes the context from walFlushNotifierCh: one more
\* FlushWAL, whose error is only logged, then the goroutine returns
WalTaskClose(f) ==
    /\ f = WalFlushTask
    /\ closer = "walSignaled"
    /\ wf[f].pc = "idle"
    /\ wf' = [wf EXCEPT ![f].pc = "oldest", ![f].last = TRUE]
    /\ FreezeWAL
    /\ UNCHANGED <<memtable, immMemtables, l0, lastCompactedWalId, memGen,
                   sstCtr, storeVars, notified, flushMsgs, mf, client, histVars,
                   compVars, closeVars>>

\* flushImmWALs: OldestImmWAL is absent, the loop ends
FlushImmWALsDone(f) ==
    /\ immWALs = <<>>
    /\ WalPc(f, "oldest", IF wf[f].last THEN "exited" ELSE "idle")
    /\ UNCHANGED <<memVars, storeVars, notified, flushMsgs, mf, client, histVars, compVars, closeVars>>

\* (mutant) the durable signal fires when the ImmutableWAL is taken, before
\* its upload
OldestImmWALNotifyEarly(f) ==
    /\ immWALs # <<>>
    /\ wf[f].pc = "oldest"
    /\ wf' = [wf EXCEPT ![f] = [@ EXCEPT !.pc = "upload", !.imm = Head(immWALs)]]
    /\ notified' = notified \cup {Head(immWALs).id}
    /\ UNCHANGED <<memVars, storeVars, flushMsgs, mf, client, histVars, compVars, closeVars>>

\* flushImmWALs: take OldestImmWAL
OldestImmWAL(f) ==
    /\ immWALs # <<>>
    /\ wf[f].pc = "oldest"
    /\ wf' = [wf EXCEPT ![f] = [@ EXCEPT !.pc = "upload", !.imm = Head(immWALs)]]
    /\ UNCHANGED <<memVars, storeVars, notified, flushMsgs, mf, client, histVars, compVars, closeVars>>

\* flushImmWAL -> flushImmTable -> TableStore.WriteSST(wal/<id>.sst)
FlushImmWAL(f) ==
    /\ WalPc(f, "upload", "pop")
    /\ WriteWalSST(wf[f].imm.id, wf[f].imm.table)
    /\ UNCHANGED <<memVars, lateUploads, manifest, manifestId, notified, flushMsgs, mf,
                   client, histVars, compVars, closeVars>>

\* The upload fails: flushImmWALs returns the error, FlushWAL gives up
FlushImmWALFails(f) ==
    /\ StoreMayFail
    /\ wf[f].pc = "upload"
    /\ wf' = [wf EXCEPT ![f] = IF wf[f].last THEN [WalIdle EXCEPT !.pc = "exited"]
                                             ELSE WalIdle]
    /\ UNCHANGED <<memVars, storeVars, notified, flushMsgs, mf, client, histVars, compVars, closeVars>>

\* (mutant) waiters are notified as the ImmutableWAL is popped, before its
\* entries reach the memtable
PopImmWALNotifyEarly(f) ==
    /\ wf[f].pc = "pop"
    /\ immWALs' = PopOldest(immWALs)
    /\ notified' = notified \cup {wf[f].imm.id}
    /\ wf' = [wf EXCEPT ![f] = [@ EXCEPT !.pc = "memtable", !.mem = memtable.gen]]
    /\ UNCHANGED <<wal, nextWalId, memtable, immMemtables, l0,
                   lastCompactedWalId, memGen, sstCtr, storeVars,
                   flushMsgs, mf, client, histVars, compVars, closeVars>>

\* PopImmWAL, then db.state.Memtable() is read for flushImmWALToMemtable
PopImmWAL(f) ==
    /\ wf[f].pc = "pop"
    /\ immWALs' = PopOldest(immWALs)
    /\ wf' = [wf EXCEPT ![f] = [@ EXCEPT !.pc = "memtable", !.mem = memtable.gen]]
    /\ UNCHANGED <<wal, nextWalId, memtable, immMemtables, l0,
                   lastCompactedWalId, memGen, sstCtr, storeVars, notified,
                   flushMsgs, mf, client, histVars, compVars, closeVars>>

\* flushImmWALToMemtable: Put every entry into the memtable object read
\* before, then SetLastWalID on it.  If that object was frozen meanwhile,
\* the entries land in the immutable memtable sharing its KVTable.
FlushImmWALToMemtable(f) ==
    LET g == wf[f].mem
        w == wf[f].imm
    IN
    /\ WalPc(f, "memtable", "freeze")
    /\ IF memtable.gen = g
       THEN /\ memtable' = [memtable EXCEPT !.table = PutAll(@, w.table),
                                            !.lastWalId = w.id]
            /\ UNCHANGED immMemtables
       ELSE /\ immMemtables' = [i \in DOMAIN immMemtables |->
                  IF immMemtables[i].gen = g
                  THEN [immMemtables[i] EXCEPT !.table = PutAll(@, w.table)]
                  ELSE immMemtables[i]]
            /\ UNCHANGED memtable
    /\ UNCHANGED <<wal, immWALs, nextWalId, l0, lastCompactedWalId, memGen,
                   sstCtr, storeVars, notified, flushMsgs, mf, client, histVars, compVars, closeVars>>

\* db.maybeFreezeMemtable(db.state, immWal.ID())
MaybeFreezeAfterWAL(f) ==
    /\ WalPc(f, "freeze", "notify")
    /\ MaybeFreezeMemtable(wf[f].imm.id)
    /\ UNCHANGED <<wal, immWALs, nextWalId, l0, lastCompactedWalId, sstCtr,
                   storeVars, notified, mf, client, histVars, compVars, closeVars>>

\* immWal.Table().NotifyWALFlushed(), then back to the top of the loop
NotifyWALFlushed(f) ==
    /\ wf[f].pc = "notify"
    /\ notified' = notified \cup {wf[f].imm.id}
    /\ wf' = [wf EXCEPT ![f] = [WalIdle EXCEPT !.pc = "oldest", !.last = wf[f].last]]
    /\ UNCHANGED <<memVars, storeVars, flushMsgs, mf, client, histVars, compVars, closeVars>>

-----------------------------------------------------------------------------
(* Memtable flusher: spawnMemtableFlushTask selects on the ticker          *)
(* (loadManifest) and on FlushImmutableMemtables messages                  *)
(* (flushImmMemtablesToL0); DB.FlushMemtableToL0 freezes the memtable and  *)
(* runs flushImmMemtablesToL0 on the caller's goroutine.                   *)

\* loadManifest: FenceableManifest.Refresh, then DBState.RefreshDBState
LoadManifest ==
    /\ manifestId' = manifest.gen
    /\ RefreshDBState(manifest)

\* Ticker case of the task's select
MemFlushTaskTick(m) ==
    /\ m = MemFlushTask
    /\ mf[m].pc = "idle"
    /\ LoadManifest
    /\ UNCHANGED <<wal, memtable, memGen, sstCtr, walSST, lateUploads, manifest, procVars,
                   histVars, cp, compactions, erased, closeVars>>

\* FlushImmutableMemtables received from memtableFlushNotifierCh
MemFlushTaskReceive(m) ==
    /\ m = MemFlushTask
    /\ flushMsgs > 0
    /\ flushMsgs' = flushMsgs - 1
    /\ MemPc(m, "idle", "oldest")
    /\ UNCHANGED <<memVars, storeVars, notified, wf, client, histVars, compVars, closeVars>>

\* (mutant) the loop ends on Shutdown without the final writeManifestSafely
MemFlushTaskShutdownNoFinalWrite(m) ==
    /\ m = MemFlushTask
    /\ closer = "memSignaled"
    /\ flushMsgs = 0
    /\ mf[m].pc = "idle"
    /\ mf' = [mf EXCEPT ![m].pc = "exited"]
    /\ UNCHANGED <<memVars, storeVars, notified, flushMsgs, wf, client, histVars,
                   compVars, closeVars>>

\* Shutdown received: isShutdown is set and, the channel being empty (the
\* WAL task that sends FlushImmutableMemtables has returned), the loop
\* ends; the final writeManifestSafely follows
MemFlushTaskShutdown(m) ==
    /\ m = MemFlushTask
    /\ closer = "memSignaled"
    /\ flushMsgs = 0
    /\ mf[m].pc = "idle"
    /\ mf' = [mf EXCEPT ![m].pc = "load", ![m].ret = "exit"]
    /\ UNCHANGED <<memVars, storeVars, notified, flushMsgs, wf, client, histVars,
                   compVars, closeVars>>

FlushMemtableToL0(m) ==
    /\ m # MemFlushTask
    /\ apiFlushes < MaxApiFlushes
    /\ apiFlushes' = apiFlushes + 1
    /\ MemPc(m, "idle", "oldest")
    /\ FreezeMemtable(memtable.lastWalId)
    /\ UNCHANGED <<wal, immWALs, nextWalId, l0, lastCompactedWalId, sstCtr,
                   storeVars, notified, flushMsgs, wf, client, latest, acked,
                   seq, crashes, compVars, closeVars>>

\* flushImmMemtablesToL0: OldestImmMemtable is absent, the loop ends
FlushImmMemtablesDone(m) ==
    /\ immMemtables = <<>>
    /\ MemPc(m, "oldest", "idle")
    /\ UNCHANGED <<memVars, storeVars, notified, flushMsgs, wf, client, histVars, compVars, closeVars>>

\* flushImmMemtablesToL0: take OldestImmMemtable
OldestImmMemtable(m) ==
    /\ immMemtables # <<>>
    /\ mf[m].pc = "oldest"
    /\ mf' = [mf EXCEPT ![m] = [@ EXCEPT !.pc = "upload", !.imm = Head(immMemtables)]]
    /\ UNCHANGED <<memVars, storeVars, notified, flushMsgs, wf, client, histVars, compVars, closeVars>>

\* The KVTable the taken immutable memtable points to, as it is now
ImmTableNow(imm) ==
    LET q == SelectSeq(immMemtables, LAMBDA x : x.gen = imm.gen)
    IN IF q = <<>> THEN imm.table ELSE q[1].table

\* (mutant) the SST is built under the id handed out last, not a fresh one
FlushImmMemtableSameId(m) ==
    /\ mf[m].pc = "upload"
    /\ mf' = [mf EXCEPT ![m] = [@ EXCEPT !.pc = "move",
                 !.sst = [id |-> sstCtr, table |-> ImmTableNow(mf[m].imm)]]]
    /\ UNCHANGED <<wal, immWALs, nextWalId, memtable, immMemtables, l0,
                   lastCompactedWalId, memGen, sstCtr, storeVars, notified, flushMsgs,
                   wf, client, histVars, compVars, closeVars>>

\* flushImmTable under a fresh Compacted(ULID) id: iterate, build, WriteSST
FlushImmMemtable(m) ==
    /\ mf[m].pc = "upload"
    /\ sstCtr' = sstCtr + 1
    /\ mf' = [mf EXCEPT ![m] = [@ EXCEPT !.pc = "move",
                 !.sst = [id |-> sstCtr + 1, table |-> ImmTableNow(mf[m].imm)]]]
    /\ UNCHANGED <<wal, immWALs, nextWalId, memtable, immMemtables, l0,
                   lastCompactedWalId, memGen, storeVars, notified, flushMsgs,
                   wf, client, histVars, compVars, closeVars>>

\* The upload fails: flushImmMemtablesToL0 returns the error
FlushImmMemtableFails(m) ==
    /\ StoreMayFail
    /\ mf[m].pc = "upload"
    /\ mf' = [mf EXCEPT ![m] = MemIdle]
    /\ UNCHANGED <<memVars, storeVars, notified, flushMsgs, wf, client, histVars, compVars, closeVars>>

\* m.db.state.MoveImmMemtableToL0(immMemtable, sstHandle)
MoveToL0(m) ==
    /\ MemPc(m, "move", "load")
    /\ MoveImmMemtableToL0(mf[m].imm, mf[m].sst)
    /\ UNCHANGED <<wal, immWALs, nextWalId, memtable, memGen, sstCtr, storeVars,
                   notified, flushMsgs, wf, client, histVars, compVars, closeVars>>

\* Where writeManifestSafely returns to: the flush loop goes on to the next
\* ImmutableMemtable on success and returns the error otherwise; after the
\* final write of Shutdown the task's goroutine ends either way
AfterManifestWrite(m, ok) ==
    CASE mf[m].ret = "exit" -> [MemIdle EXCEPT !.pc = "exited"]
      [] ok                 -> [MemIdle EXCEPT !.pc = "oldest"]
      [] OTHER              -> MemIdle

\* writeManifestSafely: loadManifest at the top of its loop
WriteManifestLoad(m) ==
    /\ MemPc(m, "load", "snap")
    /\ LoadManifest
    /\ UNCHANGED <<wal, memtable, memGen, sstCtr, walSST, lateUploads, manifest, notified,
                   flushMsgs, wf, client, histVars, cp, compactions, erased, closeVars>>

\* loadManifest fails: writeManifestSafely and the flush loop return it
WriteManifestLoadFails(m) ==
    /\ StoreMayFail
    /\ mf[m].pc = "load"
    /\ mf' = [mf EXCEPT ![m] = AfterManifestWrite(m, FALSE)]
    /\ UNCHANGED <<memVars, storeVars, notified, flushMsgs, wf, client, histVars, compVars, closeVars>>

\* writeManifest: CoreStateSnapshot
WriteManifestSnapshot(m) ==
    /\ mf[m].pc = "snap"
    /\ mf' = [mf EXCEPT ![m] = [@ EXCEPT !.pc = "write", !.snap = CoreState]]
    /\ UNCHANGED <<memVars, storeVars, notified, flushMsgs, wf, client, histVars, compVars, closeVars>>

\* (mutant) the write is not conditional on the generation read
UpdateDBStateUnconditional(m) ==
    /\ mf[m].pc = "write"
    /\ manifest' = [gen |-> manifestId + 1] @@ mf[m].snap
    /\ manifestId' = manifestId + 1
    /\ mf' = [mf EXCEPT ![m] = AfterManifestWrite(m, TRUE)]
    /\ UNCHANGED <<memVars, walSST, lateUploads, notified, flushMsgs, wf, client, histVars, compVars, closeVars>>

\* writeManifest: UpdateDBState writes generation manifestId + 1; success
\* returns to the flushImmMemtablesToL0 loop
UpdateDBState(m) ==
    /\ mf[m].pc = "write"
    /\ manifest.gen = manifestId
    /\ manifest' = [gen |-> manifestId + 1] @@ mf[m].snap
    /\ manifestId' = manifestId + 1
    /\ mf' = [mf EXCEPT ![m] = AfterManifestWrite(m, TRUE)]
    /\ UNCHANGED <<memVars, walSST, lateUploads, notified, flushMsgs, wf, client, histVars, compVars, closeVars>>

\* UpdateDBState finds generation manifestId + 1 already written (by the
\* compactor, or by another writer of the shared FenceableManifest):
\* ErrAlreadyExists, writeManifestSafely loops to loadManifest and retries
UpdateDBStateAlreadyExists(m) ==
    /\ mf[m].pc = "write"
    /\ manifest.gen # manifestId
    /\ mf' = [mf EXCEPT ![m].pc = "load"]
    /\ UNCHANGED <<memVars, storeVars, notified, flushMsgs, wf, client, histVars, compVars, closeVars>>

\* UpdateDBState fails with an object-store error: the loop returns it
UpdateDBStateFails(m) ==
    /\ StoreMayFail
    /\ mf[m].pc = "write"
    /\ mf' = [mf EXCEPT ![m] = AfterManifestWrite(m, FALSE)]
    /\ UNCHANGED <<memVars, storeVars, notified, flushMsgs, wf, client, histVars, compVars, closeVars>>

-----------------------------------------------------------------------------
(* Compactor (spec 4.9; its code is not in src/): polls the manifest,      *)
(* merges every L0 SST after l0_last_compacted and the existing runs into  *)
(* one run, and publishes it with a conditional manifest write of its own. *)
(* It holds its own epoch, so it does not fence the writer; a conflicting  *)
(* generation is AlreadyExists and the compactor polls again.              *)

\* (mutant) the merge lets the oldest source win
MergeRunsOldestWins(tables) ==
    [k \in Keys |-> IF FirstHit(k, Reverse(tables)).tomb THEN NoEntry
                    ELSE FirstHit(k, Reverse(tables))]

\* (mutant) tombstones are dropped from every source before the merge, so an
\* older source's value shows through
MergeRunsDropsEarly(tables) ==
    LET live(t) == [k \in Keys |-> IF t[k].tomb THEN NoEntry ELSE t[k]]
    IN [k \in Keys |-> FirstHit(k, [i \in 1..Len(tables) |-> live(tables[i])])]

\* k-way merge, newest source first; the output is the bottom-most run, so
\* tombstones are dropped
MergeRuns(tables) ==
    [k \in Keys |-> IF FirstHit(k, tables).tomb THEN NoEntry ELSE FirstHit(k, tables)]

\* Poll: read the latest manifest; compact when L0 is not empty
CompactorPoll ==
    /\ cp.pc = "idle"
    /\ compactions < MaxCompactions
    /\ manifest.l0 # <<>>
    /\ compactions' = compactions + 1
    /\ cp' = [cp EXCEPT !.pc = "merge", !.read = manifest]
    /\ UNCHANGED <<memVars, storeVars, procVars, histVars, compacted, l0LastCompacted,
                   erased, closeVars>>

\* Merge L0 and the runs and upload the output SSTs
CompactorMerge ==
    /\ cp.pc = "merge"
    /\ cp' = [cp EXCEPT !.pc = "write",
                         !.run = MergeRuns(TablesOf(cp.read.l0) \o cp.read.compacted)]
    /\ UNCHANGED <<memVars, storeVars, procVars, histVars, compacted, l0LastCompacted,
                   compactions, erased, closeVars>>

\* An upload fails: the compaction is abandoned until the next poll
CompactorMergeFails ==
    /\ StoreMayFail
    /\ cp.pc = "merge"
    /\ cp' = NoCompaction
    /\ UNCHANGED <<memVars, storeVars, procVars, histVars, compacted, l0LastCompacted,
                   compactions, erased, closeVars>>

\* Conditional write of the next generation: L0 shrinks by the members it
\* merged, l0_last_compacted becomes the newest of them, the run replaces
\* the runs it merged
CompactorWrite ==
    /\ cp.pc = "write"
    /\ manifest.gen = cp.read.gen
    /\ manifest' = [cp.read EXCEPT !.gen = @ + 1, !.l0 = <<>>,
                                   !.l0LastCompacted = cp.read.l0[1].id,
                                   !.compacted = <<cp.run>>]
    /\ cp' = NoCompaction
    /\ LET tables == TablesOf(cp.read.l0) \o cp.read.compacted IN
       erased' = [k \in Keys |-> IF FirstHit(k, tables).tomb /\ FirstHit(k, tables).seq > erased[k]
                                 THEN FirstHit(k, tables).seq ELSE erased[k]]
    /\ UNCHANGED <<memVars, walSST, lateUploads, manifestId, procVars, histVars, compacted,
                   l0LastCompacted, compactions, closeVars>>

\* The generation was written meanwhile: AlreadyExists, poll again
CompactorAlreadyExists ==
    /\ cp.pc = "write"
    /\ manifest.gen # cp.read.gen
    /\ cp' = NoCompaction
    /\ UNCHANGED <<memVars, storeVars, procVars, histVars, compacted, l0LastCompacted,
                   compactions, erased, closeVars>>

-----------------------------------------------------------------------------
(* DB.Close (db.go is not in src/; spec 4.10): signal the WAL task and     *)
(* wait for it, then send Shutdown to the memtable task and wait for it.   *)
(* The order is the one TestSnapshotState relies on: the memtables frozen  *)
(* by the WAL task's last flush are flushed before the manifest is read    *)
(* back on reopen.                                                         *)

CloseSignalWAL ==
    /\ closer = "open"
    /\ closes < MaxCloses
    /\ closes' = closes + 1
    /\ closer' = "walSignaled"
    /\ UNCHANGED <<memVars, storeVars, procVars, histVars, compVars>>

\* walFlushTaskWG.Wait() returned; Shutdown goes into the channel
CloseSignalMem ==
    /\ closer = "walSignaled"
    /\ wf[WalFlushTask].pc = "exited"
    /\ closer' = "memSignaled"
    /\ UNCHANGED <<memVars, storeVars, procVars, histVars, compVars, closes>>

\* memtableFlushTaskWG.Wait() returned
CloseDone ==
    /\ closer = "memSignaled"
    /\ mf[MemFlushTask].pc = "exited"
    /\ closer' = "closed"
    /\ UNCHANGED <<memVars, storeVars, procVars, histVars, compVars, closes>>

-----------------------------------------------------------------------------
(* Crash and Open (db.go, spec 4.10): every goroutine and all memory are   *)
(* lost; Open claims a new writer epoch (one more manifest generation),    *)
(* takes L0 and LastCompactedWalSSTID from the manifest and replays the    *)
(* WAL SSTs above it into fresh memtables in id order, freezing as the     *)
(* memtable fills; each freeze queues a flush message.                     *)

RECURSIVE ReplayWAL(_, _)
ReplayWAL(ids, st) ==
    IF ids = <<>> THEN st
    ELSE LET id == Head(ids)
             mem == [st.mem EXCEPT !.table = PutAll(@, walSST[id]), !.lastWalId = id]
         IN ReplayWAL(Tail(ids),
              IF TableSize(mem.table) >= L0SSTSizeBytes
              THEN [mem  |-> [gen |-> mem.gen + 1, table |-> EmptyTable, lastWalId |-> 0],
                    imms |-> Append(st.imms, [gen |-> mem.gen, table |-> mem.table,
                                              lastWalId |-> id])]
              ELSE [st EXCEPT !.mem = mem])

\* (mutant) Open keeps the manifest's NextWalSstID
RecoveredNextWalIdFromManifest(ids, m) == m.nextWalId

\* replayWAL: NextWalSstID follows the last replayed WAL SST id
RecoveredNextWalId(ids, m) ==
    IF ids = <<>> THEN m.lastCompactedWalId + 1 ELSE ids[Len(ids)] + 1

\* The memtables Open rebuilds from manifest m by replaying the WAL SSTs
OpenReplay(m) ==
    ReplayWAL(WalSSTList(m.lastCompactedWalId),
              [mem |-> [gen |-> 1, table |-> EmptyTable, lastWalId |-> 0], imms |-> <<>>])

\* The entry of k in the newest WAL SST above m's LastCompactedWalSSTID
\* holding k: Open replays them in id order, so it is the one the rebuilt
\* memtables answer with
ReplayedEntry(m, k) ==
    LET ids == {i \in DOMAIN walSST : i > m.lastCompactedWalId /\ walSST[i][k] # NoEntry}
    IN IF ids = {} THEN NoEntry ELSE walSST[Max(ids)][k]

\* What a Committed Get returns right after Open from manifest m: the
\* replayed WAL SSTs, then the manifest's L0, then its sorted runs
OpenRead(m, k) ==
    LET e == ReplayedEntry(m, k)
    IN IF e # NoEntry THEN e ELSE FirstHit(k, TablesOf(m.l0) \o m.compacted)

CrashAndOpen ==
    /\ crashes < MaxCrashes
    /\ crashes' = crashes + 1
    /\ LET m == manifest
           ids == WalSSTList(m.lastCompactedWalId)
           r == OpenReplay(m)
       IN /\ wal' = EmptyTable
          /\ immWALs' = <<>>
          /\ nextWalId' = RecoveredNextWalId(ids, m)
          /\ memtable' = r.mem
          /\ immMemtables' = r.imms
          /\ memGen' = r.mem.gen
          /\ l0' = m.l0
          /\ lastCompactedWalId' = m.lastCompactedWalId
          /\ compacted' = m.compacted
          /\ l0LastCompacted' = m.l0LastCompacted
          /\ manifest' = [m EXCEPT !.gen = @ + 1]
          /\ manifestId' = m.gen + 1
          /\ flushMsgs' = Len(r.imms)
          /\ latest' = [k \in Keys |-> OpenRead(m, k)]
    /\ lateUploads' = IF UploadsOutliveCrash
                      THEN lateUploads \cup {[id |-> wf[f].imm.id, table |-> wf[f].imm.table] :
                                              f \in {g \in WalFlushers : wf[g].pc = "upload"}}
                      ELSE {}
    /\ notified' = {}
    /\ wf' = [f \in WalFlushers |-> WalIdle]
    /\ mf' = [x \in MemFlushers |-> MemIdle]
    /\ client' = [c \in Clients |-> ClientIdle]
    /\ cp' = NoCompaction
    /\ closer' = "open"
    /\ UNCHANGED <<sstCtr, walSST, acked, seq, apiFlushes, compactions, erased, closes>>

\* The Upload of a WAL SST that a crashed process sent (TableStore.WriteSST
\* uploads with a plain Put, last writer wins) reaches the object store
\* after the new process opened
LateWalUpload ==
    /\ \E u \in lateUploads :
          /\ WriteWalSST(u.id, u.table)
          /\ lateUploads' = lateUploads \ {u}
    /\ UNCHANGED <<memVars, manifest, manifestId, procVars, histVars, compVars, closeVars>>

-----------------------------------------------------------------------------
(* Specification *)

\* Background goroutines and clients; FlushWAL callers are WalFlushers
Next ==
    \/ \E c \in Clients, k \in Keys, tomb, await \in BOOLEAN :
          WriteWithOptions(c, k, tomb, await)
    \/ \E c \in Clients : AwaitDurable(c) \/ AwaitDurableTimeout(c)
    \/ \E f \in WalFlushers :
          \/ FlushWAL(f) \/ FlushImmWALsDone(f) \/ OldestImmWAL(f)
          \/ FlushImmWAL(f) \/ FlushImmWALFails(f) \/ PopImmWAL(f)
          \/ FlushImmWALToMemtable(f) \/ MaybeFreezeAfterWAL(f)
          \/ NotifyWALFlushed(f) \/ WalTaskClose(f)
    \/ \E m \in MemFlushers :
          \/ MemFlushTaskTick(m) \/ MemFlushTaskReceive(m)
          \/ FlushImmMemtablesDone(m) \/ OldestImmMemtable(m)
          \/ FlushImmMemtable(m) \/ FlushImmMemtableFails(m) \/ MoveToL0(m)
          \/ WriteManifestLoad(m) \/ WriteManifestLoadFails(m)
          \/ WriteManifestSnapshot(m) \/ UpdateDBState(m) \/ UpdateDBStateFails(m)
          \/ UpdateDBStateAlreadyExists(m) \/ MemFlushTaskShutdown(m)
    \/ CompactorPoll \/ CompactorMerge \/ CompactorMergeFails
    \/ CompactorWrite \/ CompactorAlreadyExists
    \/ CloseSignalWAL \/ CloseSignalMem \/ CloseDone
    \/ CrashAndOpen

\* Next plus DB.FlushMemtableToL0 called by API goroutines
NextApi ==
    \/ Next
    \/ \E m \in MemFlushers : FlushMemtableToL0(m)

\* Next plus the uploads of a crashed process landing late (the fault
\* model enabled by UploadsOutliveCrash)
NextLateUploads ==
    \/ Next
    \/ LateWalUpload

Spec == Init /\ [][Next]_vars
SpecApi == Init /\ [][NextApi]_vars
SpecLateUploads == Init /\ [][NextLateUploads]_vars

\* Weak fairness on every goroutine step, strong fairness on the uploads
\* succeeding (the object store is not down forever), weak fairness on a
\* blocked waiter waking once its signal fired; none on issuing writes,
\* timeouts, crashes or API calls.
Fairness ==
    /\ \A c \in Clients : WF_vars(AwaitDurable(c))
    /\ \A f \in WalFlushers :
          /\ WF_vars(FlushWAL(f) \/ FlushImmWALsDone(f) \/ OldestImmWAL(f))
          /\ SF_vars(FlushImmWAL(f))
          /\ WF_vars(PopImmWAL(f) \/ FlushImmWALToMemtable(f))
          /\ WF_vars(MaybeFreezeAfterWAL(f) \/ NotifyWALFlushed(f))
    /\ \A m \in MemFlushers :
          /\ WF_vars(MemFlushTaskReceive(m) \/ FlushImmMemtablesDone(m))
          /\ WF_vars(OldestImmMemtable(m) \/ MoveToL0(m))
          /\ SF_vars(FlushImmMemtable(m))
          /\ SF_vars(WriteManifestLoad(m))
          /\ WF_vars(WriteManifestSnapshot(m))
          /\ SF_vars(UpdateDBState(m))

FairSpec == Spec /\ Fairness

-----------------------------------------------------------------------------
(* Properties *)

TypeOK ==
    /\ wal \in Table
    /\ immWALs \in Seq([id : Nat \ {0}, table : Table])
    /\ nextWalId \in Nat \ {0}
    /\ memtable \in [gen : Nat, table : Table, lastWalId : Nat]
    /\ immMemtables \in Seq([gen : Nat, table : Table, lastWalId : Nat])
    /\ l0 \in Seq([id : Nat \ {0}, table : Table])
    /\ lastCompactedWalId \in Nat
    /\ DOMAIN walSST \subseteq Nat \ {0}
    /\ \A i \in DOMAIN walSST : walSST[i] \in Table
    /\ lateUploads \subseteq [id : Nat \ {0}, table : Table]
    /\ manifestId \in 1..manifest.gen
    /\ compacted \in Seq(Table)
    /\ l0LastCompacted \in Nat
    /\ cp.pc \in {"idle", "merge", "write"}
    /\ notified \subseteq Nat
    /\ flushMsgs \in Nat
    /\ \A f \in WalFlushers : wf[f].pc \in {"idle", "oldest", "upload", "pop",
                                            "memtable", "freeze", "notify", "exited"}
    /\ \A m \in MemFlushers : mf[m].pc \in {"idle", "oldest", "upload", "move",
                                            "load", "snap", "write", "exited"}
    /\ closer \in ClosePhases
    /\ \A c \in Clients : client[c].pc \in {"idle", "wait"}
    /\ acked \in [Keys -> 0..MaxWrites]

\* A Put or Delete whose AwaitDurable wait returned is seen by a Committed
\* Get from then on (at that write or a newer one), through WAL flush,
\* memtable freeze, L0 flush, manifest writes, crash and WAL replay.
AckedWritesVisible ==
    \A k \in Keys : ReadSeq(k, CommittedRead(k)) >= acked[k]

\* Read precedence (spec section 3): across WAL, ImmutableWALs, memtable,
\* ImmutableMemtables and L0, in the order Get consults them, no tier holds
\* an older version of a key than a tier consulted after it.
PrecedenceRespected ==
    LET T == UncommittedTiers IN
    \A k \in Keys : \A i, j \in 1..Len(T) :
        (i < j /\ T[i][k] # NoEntry /\ T[j][k] # NoEntry) => T[i][k].seq >= T[j][k].seq

\* A Committed Get never goes back to an older version of a key, across
\* the flushers' steps and across a crash and Open.
CommittedReadsMonotonic ==
    [][\A k \in Keys : ReadSeq(k, CommittedRead(k))' >= ReadSeq(k, CommittedRead(k))]_vars

\* A WAL SST, once uploaded, is never replaced by different contents: the
\* NextWalSstID chosen by Open never reuses the id of a WAL SST in the store.
WalSSTNeverOverwritten ==
    [][\A i \in DOMAIN walSST : i \in DOMAIN walSST' /\ walSST'[i] = walSST[i]]_walSST

\* Spec 8.5: every published manifest generation is strictly newer than
\* the one before, and l0_last_compacted never moves back, across the
\* conditional writes of the memtable flusher, the compactor and Open.
ManifestMonotonic ==
    [][/\ manifest'.gen > manifest.gen
       /\ manifest'.l0LastCompacted >= manifest.l0LastCompacted]_manifest

\* TestSnapshotState and TestBasicRestore: once Close returned, having run
\* while the object store was up, the manifest holds the writer's L0 (less
\* what a compactor, which Close does not stop, absorbed since) and its
\* LastCompactedWalSSTID (the final writeManifestSafely published them even
\* if an earlier manifest write failed), and an Open recovers every write
\* issued before Close, durable or not (the WAL task's last FlushWAL
\* uploaded the rest).
CloseLeavesEverythingRecoverable ==
    closer = "closed" =>
        /\ manifest.l0 = L0AboveLastCompacted(l0, manifest.l0LastCompacted)
        /\ manifest.lastCompactedWalId = lastCompactedWalId
        /\ \A k \in Keys : ReadSeq(k, OpenRead(manifest, k)) = ReadSeq(k, latest[k])

\* SlateDB implements DurableKV.  The abstract state is read off the
\* detailed one: the newest write per key, the write an Open from the
\* current manifest and WAL SSTs would return (OpenRead, with the
\* tombstones a compaction dropped counted through ReadSeq), and the
\* acknowledged durable writes.
KV == INSTANCE DurableKV WITH
        Seqs <- 0..MaxWrites,
        written <- [k \in Keys |-> ReadSeq(k, latest[k])],
        durable <- [k \in Keys |-> ReadSeq(k, OpenRead(manifest, k))],
        acked <- acked

\* Spec 8.4 and 9(a), step by step: every step of the WAL flusher, the
\* memtable flusher, the compactor, Close and Open is a step of DurableKV.
\* A write is durable only once a WAL SST or a manifest holds it, an
\* AwaitDurable Put returns only for a durable write, no step (an L0 SST
\* the manifest loses, a LastCompactedWalSSTID ahead of L0, a compaction
\* publishing older data) makes a durable write undone, and a crash loses
\* exactly the writes that were not durable.
KVRefinement == KV!Spec

\* Every write, with or without AwaitDurable, is eventually uploaded: the
\* WAL flush task's ticker keeps freezing and uploading the WAL until an
\* Open would read back everything written.
KVEventuallyDurable == KV!AllWritesEventuallyDurable

\* An Uncommitted Get sees the newest write whose WAL write returned
\* (spec section 5: "for Uncommitted, it suffices that the Put's WAL write
\* returned").
UncommittedReadsLatest ==
    \A k \in Keys : UncommittedRead(k) = latest[k]

\* Every Put/Delete waiting on AwaitDurable eventually returns.
DurablePutReturns ==
    \A c \in Clients : client[c].pc = "wait" ~> client[c].pc = "idle"

\* A frozen memtable is eventually flushed to L0 (spec section 7: flush
\* tasks log transient object-store errors and retry on the next tick).
ImmMemtablesEventuallyFlushed ==
    immMemtables # <<>> ~> immMemtables = <<>>

=============================================================================

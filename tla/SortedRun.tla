------------------------------ MODULE SortedRun ------------------------------
(***************************************************************************)
(* A sorted run: SSTs with disjoint, ascending key ranges.  Two            *)
(* implementations of indexOfSSTWithKey (the linear scan of                *)
(* slatedb/sortedrun.go and the sort.Search of the compaction package) are *)
(* checked against the reference "last SST whose first key is <= key", and *)
(* the SortedRunIterator built by NewSortedRunIteratorFromKey is stepped   *)
(* entry by entry and checked against "every entry of the run at or above  *)
(* the key, in order".  Keys are 1..MaxKey; an entry carries a tombstone   *)
(* flag.                                                                   *)
(***************************************************************************)
EXTENDS Integers, Sequences, FiniteSets, SequencesExt

CONSTANTS MaxKey    \* keys are 1..MaxKey; seek keys also 0 and MaxKey + 1

ASSUME MaxKey \in Nat \ {0}

VARIABLES
    impl,       \* which copy: "slatedb" (sortedrun.go) or "compaction"
    api,        \* what the caller pulls: "NextEntry", or "Next" (no tombstones)
    run,        \* the sorted run: a sequence of SSTs, each a sequence of entries
    seekKey,    \* key passed to NewSortedRunIteratorFromKey, None for
                \* newSortedRunIterator
    sstList,    \* SSTListIterator: SSTs not yet opened
    cur,        \* currentKVIter: entries it has not yet returned, or NoIter
    out,        \* entries NextEntry returned so far
    done,       \* NextEntry returned false or an error
    warn,       \* the compaction copy's Warnings() is not empty
    err         \* an error was returned (by the slatedb NextEntry, or by the
                \* compaction constructor)

vars == <<impl, api, run, seekKey, sstList, cur, out, done, warn, err>>

KeySet == 1..MaxKey
SeekKeys == 0..(MaxKey + 1)
NoIter == <<[key |-> -1, tomb |-> FALSE]>>
None == -1

\* Every sorted run over KeySet: the empty run, and a sorted set of keys
\* with tombstone flags cut into non-empty SSTs at a set of cut points.
Runs ==
    {<<>>} \cup UNION {
      LET ks == SetToSortSeq(S, <) IN
      { LET cutsSeq == <<0>> \o SetToSortSeq(cuts, <) \o <<Len(ks)>>
            entries == [i \in 1..Len(ks) |-> [key |-> ks[i], tomb |-> t[ks[i]]]]
        IN [j \in 1..(Len(cutsSeq) - 1) |-> SubSeq(entries, cutsSeq[j] + 1, cutsSeq[j + 1])]
        : cuts \in SUBSET (1..(Len(ks) - 1)), t \in [S -> BOOLEAN] }
      : S \in (SUBSET KeySet) \ {{}} }

FirstKey(sst) == sst[1].key

-----------------------------------------------------------------------------
(* The sorted runs of sortedrun.go's tests.  OrderedBytesGenerator.next()  *)
(* returns strictly increasing byte strings, so the i-th generated key is  *)
(* the number first + i - 1; its value follows the key and is left out.    *)

\* buildSRWithSSTs: n SSTs, each of keysPerSST consecutive generated keys
BuildSRWithSSTs(n, keysPerSST, first) ==
    [i \in 1..n |-> [j \in 1..keysPerSST |->
        [key |-> first + (i - 1) * keysPerSST + j - 1, tomb |-> FALSE]]]

\* Live entries of the given keys, as builder.add(key, mo.Some(value)) makes
LiveSST(ks) == [j \in 1..Len(ks) |-> [key |-> ks[j], tomb |-> FALSE]]

\* TestOneSstSRIter: key1..key3 in one SST, newSortedRunIterator
TestOneSstSRIter == [run |-> <<LiveSST(<<1, 2, 3>>)>>, seekKeys |-> {None}]

\* TestManySstSRIter: key1, key2 in one SST and key3 in a second
TestManySstSRIter ==
    [run |-> <<LiveSST(<<1, 2>>), LiveSST(<<3>>)>>, seekKeys |-> {None}]

\* TestSRIterFromKey: 3 SSTs of 10 keys, an iterator from each of the 30
TestSRIterFromKey == [run |-> BuildSRWithSSTs(3, 10, 1), seekKeys |-> 1..30]

\* TestSRIterFromKeyLowerThanRange: a key below the run's first key
TestSRIterFromKeyLowerThanRange ==
    [run |-> BuildSRWithSSTs(3, 10, 1), seekKeys |-> {0}]

\* TestSRIterFromKeyHigherThanRange: a key above the run's last key
TestSRIterFromKeyHigherThanRange ==
    [run |-> BuildSRWithSSTs(3, 10, 1), seekKeys |-> {31}]

\* The tests drive the slatedb copy through SortedRunIterator.Next
SRTests == {TestOneSstSRIter, TestManySstSRIter, TestSRIterFromKey,
            TestSRIterFromKeyLowerThanRange, TestSRIterFromKeyHigherThanRange}

-----------------------------------------------------------------------------
(* indexOfSSTWithKey *)

\* Reference: the 0-based index of the last SST whose first key is <= key
IndexReference(sr, key) ==
    LET C == {i \in 1..Len(sr) : FirstKey(sr[i]) <= key}
    IN IF C = {} THEN None ELSE Max(C) - 1

\* sortedrun.go: scan for the first SST whose first key is > key; past the
\* last SST the index is len; answer index - 1 when index > 0
RECURSIVE LinearScan(_, _, _)
LinearScan(sr, key, i) ==
    IF i >= Len(sr) THEN 0
    ELSE IF FirstKey(sr[i + 1]) > key THEN i
    ELSE IF i = Len(sr) - 1 THEN i + 1
    ELSE LinearScan(sr, key, i + 1)

IndexOfSSTWithKeyLinear(sr, key) ==
    LET index == LinearScan(sr, key, 0)
    IN IF index > 0 THEN index - 1 ELSE None

\* (mutant) the sort.Search predicate compares with >= instead of >
IndexOfSSTWithKeySearchGe(sr, key) ==
    LET index == IF \E i \in 0..(Len(sr) - 1) : FirstKey(sr[i + 1]) >= key
                 THEN Min({i \in 0..(Len(sr) - 1) : FirstKey(sr[i + 1]) >= key})
                 ELSE Len(sr)
    IN IF index > 0 THEN index - 1 ELSE None

\* compaction package: sort.Search for the first SST whose first key is > key
IndexOfSSTWithKeySearch(sr, key) ==
    LET index == IF \E i \in 0..(Len(sr) - 1) : FirstKey(sr[i + 1]) > key
                 THEN Min({i \in 0..(Len(sr) - 1) : FirstKey(sr[i + 1]) > key})
                 ELSE Len(sr)
    IN IF index > 0 THEN index - 1 ELSE None

-----------------------------------------------------------------------------
(* SortedRunIterator *)

\* sstable.NewIteratorAtKey: the entries of sst at or above key
IteratorAtKey(sst, key) == SelectSeq(sst, LAMBDA e : e.key >= key)

\* SSTListIterator.Next: the next SST and the SSTs after it, or nothing
SSTListNext(list) ==
    IF list = <<>> THEN [ok |-> FALSE, sst |-> <<>>, rest |-> <<>>]
    ELSE [ok |-> TRUE, sst |-> Head(list), rest |-> Tail(list)]

\* slatedb newSortedRunIter: the first SST of the list becomes the current
\* iterator (seeked to fromKey when present), the rest stay queued
NewSortedRunIter(list, fromKey) ==
    LET first == SSTListNext(list) IN
    [sstList |-> first.rest,
     cur     |-> IF ~first.ok THEN NoIter
                 ELSE IF fromKey # None THEN IteratorAtKey(first.sst, fromKey)
                 ELSE first.sst]

\* slatedb newSortedRunIterator: the whole run, no key
NewSortedRunIterator(sr) == NewSortedRunIter(sr, None)

\* slatedb newSortedRunIteratorFromKey: from the SST the linear
\* indexOfSSTWithKey picks, or the whole list when it finds none
NewSortedRunIteratorFromKeyLinear(sr, key) ==
    LET idx == IndexOfSSTWithKeyLinear(sr, key)
        list == IF idx # None THEN SubSeq(sr, idx + 1, Len(sr)) ELSE sr
    IN NewSortedRunIter(list, key)

\* compaction NewSortedRunIteratorFromKey / newSortedRunIter: start at the SST that may
\* hold key (or the first SST), seek it to key, queue the rest
NewSortedRunIteratorFromKey(sr, key) ==
    LET idx == IndexOfSSTWithKeySearch(sr, key)
        list == IF idx # None THEN SubSeq(sr, idx + 1, Len(sr)) ELSE sr
    IN IF list = <<>> THEN [sstList |-> <<>>, cur |-> NoIter]
       ELSE [sstList |-> Tail(list), cur |-> IteratorAtKey(Head(list), key)]

\* compaction newSortedRunIter: sstable.NewIteratorAtKey on the first SST
\* may fail, and the constructor then returns (nil, err)
NewSortedRunIterFails(it) == impl = "compaction" /\ it.cur # NoIter

Init ==
    /\ \/ /\ impl \in {"slatedb", "compaction"}
          /\ api \in {"NextEntry", "Next"}
          /\ run \in Runs
          /\ seekKey \in IF impl = "slatedb" THEN SeekKeys \cup {None} ELSE SeekKeys
       \/ \E t \in SRTests :
          /\ impl = "slatedb" /\ api = "Next"
          /\ run = t.run /\ seekKey \in t.seekKeys
    /\ LET it == CASE seekKey = None    -> NewSortedRunIterator(run)
                    [] impl = "slatedb" -> NewSortedRunIteratorFromKeyLinear(run, seekKey)
                    [] OTHER            -> NewSortedRunIteratorFromKey(run, seekKey) IN
         \/ /\ sstList = it.sstList /\ cur = it.cur
            /\ done = FALSE /\ err = FALSE
         \/ /\ NewSortedRunIterFails(it)
            /\ sstList = <<>> /\ cur = NoIter
            /\ done = TRUE /\ err = TRUE
    /\ out = <<>>
    /\ warn = FALSE

\* (mutant) Next hands tombstones to its caller
ReturnedKeepsTombstones(e) == Append(out, e)

\* What the caller receives of an entry NextEntry returned: Next loops past
\* tombstones and returns the next live key-value, NextEntry returns it all
Returned(e) == IF api = "Next" /\ e.tomb THEN out ELSE Append(out, e)

\* (mutant) the currentKVIter.IsAbsent() check is dropped
NextEntryFromSSTNoAbsentCheck ==
    /\ ~done
    /\ cur # <<>>
    /\ out' = Returned(Head(cur))
    /\ cur' = Tail(cur)
    /\ UNCHANGED <<impl, api, run, seekKey, sstList, done, warn, err>>

\* NextEntry: the current SST iterator returns an entry
NextEntryFromSST ==
    /\ ~done
    /\ cur # NoIter /\ cur # <<>>
    /\ out' = Returned(Head(cur))
    /\ cur' = Tail(cur)
    /\ UNCHANGED <<impl, api, run, seekKey, sstList, done, warn, err>>

\* NextEntry: the current SST is exhausted, open the next with NewIterator
NextEntryOpenNextSST ==
    /\ ~done
    /\ cur = <<>>
    /\ LET next == SSTListNext(sstList) IN
         /\ next.ok
         /\ cur' = next.sst
         /\ sstList' = next.rest
    /\ UNCHANGED <<impl, api, run, seekKey, out, done, warn, err>>

\* (mutant) only an exhausted SST list ends the iteration
NextEntryExhaustedListOnly ==
    /\ ~done
    /\ cur = <<>> /\ sstList = <<>>
    /\ done' = TRUE
    /\ UNCHANGED <<impl, api, run, seekKey, sstList, cur, out, warn, err>>

\* NextEntry returns false: no current iterator, or no SST left
NextEntryExhausted ==
    /\ ~done
    /\ cur = NoIter \/ (cur = <<>> /\ ~SSTListNext(sstList).ok)
    /\ done' = TRUE
    /\ UNCHANGED <<impl, api, run, seekKey, sstList, cur, out, warn, err>>

\* slatedb NextEntry: the SST iterator returns an error, which NextEntry
\* (and Next) hand to the caller
NextEntryReadError ==
    /\ impl = "slatedb" /\ ~done
    /\ cur # NoIter /\ cur # <<>>
    /\ done' = TRUE /\ err' = TRUE
    /\ UNCHANGED <<impl, api, run, seekKey, sstList, cur, out, warn>>

\* (mutant) the SST iterator's warnings are not merged
NextEntrySSTReadFailsNoMerge ==
    /\ impl = "compaction" /\ ~done
    /\ cur # NoIter /\ cur # <<>>
    /\ cur' = <<>>
    /\ UNCHANGED <<impl, api, run, seekKey, sstList, out, done, warn, err>>

\* compaction NextEntry: a failed block read ends the SST iterator early
\* (kvIter.NextEntry returns false); its warnings are merged and the rest
\* of that SST is skipped
NextEntrySSTReadFails ==
    /\ impl = "compaction" /\ ~done
    /\ cur # NoIter /\ cur # <<>>
    /\ cur' = <<>>
    /\ warn' = TRUE
    /\ UNCHANGED <<impl, api, run, seekKey, sstList, out, done, err>>

\* compaction NextEntry: sstable.NewIterator fails on the next SST; a
\* warning is added and NextEntry returns false
NextEntryOpenNextSSTFails ==
    /\ impl = "compaction" /\ ~done
    /\ cur = <<>>
    /\ LET next == SSTListNext(sstList) IN
         /\ next.ok
         /\ sstList' = next.rest
    /\ warn' = TRUE /\ done' = TRUE
    /\ UNCHANGED <<impl, api, run, seekKey, cur, out, err>>

Next ==
    \/ NextEntryFromSST \/ NextEntryOpenNextSST \/ NextEntryExhausted
    \/ NextEntryReadError \/ NextEntrySSTReadFails \/ NextEntryOpenNextSSTFails

Spec == Init /\ [][Next]_vars /\ WF_vars(Next)

\* SortedRun.sstWithKey: the SST indexOfSSTWithKey picks, <<>> for none
SSTWithKey(sr, key) ==
    LET i == IndexOfSSTWithKeyLinear(sr, key)
    IN IF i = None THEN <<>> ELSE sr[i + 1]

-----------------------------------------------------------------------------
(* Properties *)

AllEntries(sr) == FlattenSeq(sr)

\* Seek keys from below a run's first key to above its last
SeekRange(sr) ==
    0..(Max({MaxKey} \cup {e.key : e \in Range(AllEntries(sr))}) + 1)

TypeOK ==
    /\ impl \in {"slatedb", "compaction"}
    /\ api \in {"NextEntry", "Next"}
    /\ run \in Runs \cup {t.run : t \in SRTests}
    /\ seekKey \in SeekRange(run) \cup {None}
    /\ out \in Seq(Range(AllEntries(run)))
    /\ done \in BOOLEAN
    /\ warn \in BOOLEAN
    /\ err \in BOOLEAN

\* Both indexOfSSTWithKey implementations pick, for every seek key, the
\* only SST of the run whose key range may contain it, and sstWithKey
\* hands back the SST that holds the key whenever the run holds it.
IndexOfSSTWithKeyCorrect ==
    \A key \in SeekRange(run) :
        /\ IndexOfSSTWithKeyLinear(run, key) = IndexReference(run, key)
        /\ IndexOfSSTWithKeySearch(run, key) = IndexReference(run, key)
        /\ \A e \in Range(FlattenSeq(run)) :
               e.key = key => e \in Range(SSTWithKey(run, key))

\* The iterator returns the run's entries at or above the key (all of them
\* when built without a key) in key order, NextEntry with the tombstones
\* and Next without them, and it leaves one out only when it reported it:
\* through the compaction copy's Warnings() after a failed block read or
\* NewIterator, or through an error.  Unreported, what it returned so far
\* is a prefix of that list, and all of it once the iteration ended.
IteratorYieldsSuffix ==
    LET want == SelectSeq(AllEntries(run),
                          LAMBDA e : e.key >= seekKey /\ ~(api = "Next" /\ e.tomb))
    IN /\ \A i \in 1..Len(out) : out[i] \in Range(want)
       /\ \A i \in 1..(Len(out) - 1) : out[i].key < out[i + 1].key
       /\ ~warn => IsPrefix(out, want)
       /\ done /\ ~warn /\ ~err => out = want

\* The iterator eventually reports exhaustion.
IteratorTerminates == <>done

=============================================================================

------------------------------ MODULE DurableKV ------------------------------
(***************************************************************************)
(* What slatedb-go promises of the data it holds, independent of tiers,    *)
(* flushers and manifests (spec 1, 4.10 and 8.4): per key, the newest      *)
(* write issued, the newest write that is durable (what an Open would      *)
(* read back), and the newest write whose AwaitDurable Put returned.       *)
(*                                                                         *)
(*  - a write makes a key newer and does not by itself make it durable;    *)
(*  - writes become durable in any order, never beyond what was written,   *)
(*    and a durable write never becomes undone;                            *)
(*  - an AwaitDurable Put returns only for a durable write;                *)
(*  - a crash loses exactly the writes that were not durable.              *)
(*                                                                         *)
(* A write is its sequence number, larger is newer, 0 is "never written".  *)
(* SlateDB.tla implements this module under the mapping in SlateDB's      *)
(* KV instance.                                                            *)
(***************************************************************************)
EXTENDS Naturals

CONSTANTS
    Keys,   \* the keys
    Seqs    \* the sequence numbers writes may carry, 0 included

VARIABLES
    written,    \* newest write per key, durable or not
    durable,    \* newest write per key an Open would return
    acked       \* newest write per key whose AwaitDurable Put returned

vars == <<written, durable, acked>>

TypeOK ==
    /\ written \in [Keys -> Seqs]
    /\ durable \in [Keys -> Seqs]
    /\ acked \in [Keys -> Seqs]

Init ==
    /\ written = [k \in Keys |-> 0]
    /\ durable = [k \in Keys |-> 0]
    /\ acked = [k \in Keys |-> 0]

\* A Put or Delete of k
Write(k, s) ==
    /\ s > written[k]
    /\ written' = [written EXCEPT ![k] = s]
    /\ UNCHANGED <<durable, acked>>

\* Writes reach the object store: durable moves up, never past written
Persist ==
    /\ UNCHANGED <<written, acked>>
    /\ durable' # durable
    /\ durable' \in [Keys -> Seqs]
    /\ \A k \in Keys : durable[k] <= durable'[k] /\ durable'[k] <= written[k]

\* An AwaitDurable Put of k returns, for a write that is durable
Ack(k, s) ==
    /\ acked' = [acked EXCEPT ![k] = s]
    /\ acked[k] < s /\ s <= durable[k]
    /\ UNCHANGED <<written, durable>>

\* Crash and Open: what was not durable is gone
Crash ==
    /\ written' # written
    /\ written' = durable
    /\ UNCHANGED <<durable, acked>>

Next ==
    \/ \E k \in Keys, s \in Seqs : Write(k, s) \/ Ack(k, s)
    \/ Persist
    \/ Crash

Spec == Init /\ [][Next]_vars

\* Every write is durable again and again: the flushers keep catching up
\* with the writers, so nothing waits forever in memory.
AllWritesEventuallyDurable == []<>(durable = written)

=============================================================================

------------------------------ MODULE MCSlateDB ------------------------------
(* Model-checking instance of SlateDB: constants for the TLC runs. *)
EXTENDS SlateDB

CONSTANTS k1, k2, c1, c2, ticker, apiFlushWAL, memTask, apiFlushMem

MCKeys1 == {k1}
MCKeys2 == {k1, k2}
MCClients1 == {c1}
MCClients2 == {c1, c2}
MCWalTask == {ticker}
MCWalTaskAndApi == {ticker, apiFlushWAL}
MCMemTask == {memTask}
MCMemTaskAndApi == {memTask, apiFlushMem}
MCAllPhases == ClosePhases
MCStoreUpWhileClosing == {"open"}
=============================================================================

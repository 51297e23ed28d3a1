----------------------------- MODULE MCOutputMdsd -----------------------------
(* Two flush threads.  A chunk of two records, the second of which raises and *)
(* takes the first with it, one that begins with a record too large, and one  *)
(* of a record without a source name.                                         *)
EXTENDS OutputMdsd, TLC

CONSTANTS c1, c2, k1, k2, k3, small, big, malformed, sourceless

MCCallers == {c1, c2}
MCChunks == {k1, k2, k3}
MCRecords == {small, big, malformed, sourceless}
MCRecordsOf ==
    (k1 :> <<small, malformed>>) @@ (k2 :> <<big, small, small>>)
        @@ (k3 :> <<sourceless>>)
MCMalformed == {malformed}
MCTooLarge == {big}
MCSourceless == {sourceless}

(* With a cache, and with it a resender, two items of the first two chunks    *)
(* are as many as TLC can follow, with a reader that does not hang (it may in *)
(* logger_safety and socketlogger_live).  Without one there are more, for a   *)
(* chunk to be written again.                                                 *)
CONSTANT CacheItems
FewItems ==
    useCache => /\ counter <= CacheItems
                /\ k3 \in queued
                /\ readerPc # "stuck"

Threads == Permutations(MCCallers)
==============================================================================

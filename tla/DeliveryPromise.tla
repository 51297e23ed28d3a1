--------------------------- MODULE DeliveryPromise ---------------------------
(***************************************************************************)
(* What a logger with acks promises for an item that it takes, without     *)
(* threads, sockets, queues or copies of its cache: the item is kept, to   *)
(* be sent again, and let go of only in a step that has a reason for it at *)
(* that moment.  Whoever gets an answer for an item gets one, and an item  *)
(* given back with "false" is not kept.  What was let go of is never kept  *)
(* again, and no reason is ever taken back.                                *)
(***************************************************************************)
CONSTANT Items

VARIABLES
    taken,      \* items the logger has taken
    kept,       \* those it would still send again
    accepted,   \* those whose callers were told "true"
    refused,    \* those whose callers were told "false"
    acked,      \* those that mdsd acknowledged with success
    expired,    \* those that got too old
    misread     \* those taken for another item that mdsd acknowledged

promiseVars == <<taken, kept, accepted, refused, acked, expired, misread>>

PromiseInit ==
    /\ taken = {} /\ kept = {}
    /\ accepted = {} /\ refused = {}
    /\ acked = {} /\ expired = {} /\ misread = {}

Take(i) ==
    /\ i \in Items \ taken
    /\ taken' = taken \cup {i}
    /\ kept' = kept \cup {i}
    /\ UNCHANGED <<accepted, refused, acked, expired, misread>>

Unanswered(i) == i \in taken \ (accepted \cup refused)

Accept(i) ==
    /\ Unanswered(i)
    /\ accepted' = accepted \cup {i}
    /\ UNCHANGED <<taken, kept, refused, acked, expired, misread>>

Refuse(i) ==
    /\ Unanswered(i)
    /\ refused' = refused \cup {i}
    /\ kept' = kept \ {i}
    /\ UNCHANGED <<taken, accepted, acked, expired, misread>>

\* nobody acknowledges what was not taken
Acknowledge(i) ==
    /\ i \in taken
    /\ acked' = acked \cup {i}
    /\ UNCHANGED <<taken, kept, accepted, refused, expired, misread>>

LetGo(i) ==
    /\ i \in kept \cap acked
    /\ kept' = kept \ {i}
    /\ UNCHANGED <<taken, accepted, refused, acked, expired, misread>>

Expire(old) ==
    /\ kept' = kept \ old
    /\ expired' = expired \cup old
    /\ UNCHANGED <<taken, accepted, refused, acked, misread>>

\* the ack was for another item
Mistake(i) ==
    /\ i \in kept
    /\ \E other \in acked : other # i
    /\ kept' = kept \ {i}
    /\ misread' = misread \cup {i}
    /\ UNCHANGED <<taken, accepted, refused, acked, expired>>

PromiseNext ==
    \/ \E i \in Items :
         Take(i) \/ Accept(i) \/ Refuse(i) \/ Acknowledge(i) \/ LetGo(i) \/ Mistake(i)
    \/ \E old \in SUBSET kept : Expire(old)

PromiseSpec == PromiseInit /\ [][PromiseNext]_promiseVars
==============================================================================

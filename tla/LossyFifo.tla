------------------------------ MODULE LossyFifo ------------------------------
(***************************************************************************)
(* What outmdsd promises of its incoming queue, without locks, condition   *)
(* variables or sleeping threads: values go in numbered, come out in the   *)
(* order they went in, and a full queue forgets its oldest value to make   *)
(* room.  A reader leaves only when the queue is closed and empty, and     *)
(* nothing that a reader could take stays untaken for ever.                *)
(***************************************************************************)
EXTENDS Naturals, Sequences

CONSTANTS Readers,    \* the threads that take values
          Capacity    \* 0 means no limit

VARIABLES buffer,     \* the values in the queue, oldest first
          put,        \* number of values put so far; the next is put + 1
          taken,      \* values some reader took
          forgotten,  \* values pushed out by a newer one
          closed,     \* no reader waits on an empty queue any more
          readers     \* the readers that have not left

fifoVars == <<buffer, put, taken, forgotten, closed, readers>>

FifoInit ==
    /\ buffer = <<>>
    /\ put = 0
    /\ taken = {}
    /\ forgotten = {}
    /\ closed = FALSE
    /\ readers = Readers

HasRoom == Capacity = 0 \/ Len(buffer) < Capacity

Put ==
    /\ put' = put + 1
    /\ IF HasRoom
       THEN /\ buffer' = Append(buffer, put + 1)
            /\ UNCHANGED forgotten
       ELSE /\ buffer' = Append(Tail(buffer), put + 1)
            /\ forgotten' = forgotten \cup {Head(buffer)}
    /\ UNCHANGED <<taken, closed, readers>>

Take ==
    /\ readers # {}
    /\ buffer # <<>>
    /\ buffer' = Tail(buffer)
    /\ taken' = taken \cup {Head(buffer)}
    /\ UNCHANGED <<put, forgotten, closed, readers>>

Shut == closed' = TRUE /\ UNCHANGED <<buffer, put, taken, forgotten, readers>>

Leave(r) ==
    /\ closed
    /\ buffer = <<>>
    /\ r \in readers
    /\ readers' = readers \ {r}
    /\ UNCHANGED <<buffer, put, taken, forgotten, closed>>

FifoNext == Put \/ Take \/ Shut \/ \E r \in Readers : Leave(r)

FifoSpec ==
    /\ FifoInit
    /\ [][FifoNext]_fifoVars
    /\ WF_fifoVars(Take)
    /\ \A r \in Readers : WF_fifoVars(Leave(r))
==============================================================================
